---- MODULE Spec2Model ----
(***************************************************************************)
(* The recommendation request of app.py as a state machine: admission      *)
(* control, the SIGALRM deadline of timeout_decorator, the cache, the      *)
(* store load, the onboarding of adicionar_usuario / scrap.scrap with its  *)
(* transaction, the recursive retry and the scoring.                       *)
(*                                                                         *)
(* Time is in whole seconds.  Ratings are in half stars (1..10 stands for  *)
(* 0.5..5.0), so that every comparison of the code on ratings and          *)
(* averages is exact integer arithmetic.                                   *)
(***************************************************************************)
EXTENDS Integers, Sequences, FiniteSets, TLC

\* ------------------------------------------------------------ constants

REQUEST_TIMEOUT == 5
RATE_LIMIT_WINDOW == 60
RATE_LIMIT_MAX_REQUESTS == 10
CACHE_EXPIRY == 300
\* LIMIT of the query of the user's ratings, and of the popular query
USER_MOVIES_LIMIT == 20
POPULAR_LIMIT == 15
\* HAVING COUNT(r.rating) >= 2
POPULAR_MIN_COUNT == 2
\* recomendacoes[:5]
TOP_N == 5
\* the minimum of ratings that the insufficient_data message states
MIN_RATINGS == 10

\* ------------------------------------------------------------ bounds

\* requests that arrive in one behaviour
MaxRequests == 2
\* frames of gerar_recomendacoes the interpreter allows before RecursionError
MaxDepth == 2
\* films one scrape returns
MaxFilms == 2
\* requests of the specification of the admission control
MaxBurst == 12
\* the last instant of the specification of the admission control
AdmitHorizon == 62
\* the last instant at which a request arrives in the specification of the cache
CacheHorizon == 310

\* ------------------------------------------------------------ values

NoAlarm == -1
NoRating == -1
NoEntry == [data |-> <<>>, timestamp |-> -1]
NoResponse == [http |-> 0]

Clients == {"10.0.0.1", "10.0.0.2"}
Usernames == {"alice", "bob", "carol", "erin", "dave"}

FallbackTitles ==
    << "The Shawshank Redemption", "The Godfather", "Pulp Fiction", "Fight Club",
       "Forrest Gump", "The Matrix", "Goodfellas", "The Silence of the Lambs",
       "Interstellar", "The Departed" >>

\* the static scores of quick_fallback, in tenths
FallbackScores == << 93, 92, 89, 88, 88, 87, 87, 86, 86, 85 >>

StoreTitles ==
    << "f01", "f02", "f03", "f04", "f05", "f06", "f07", "f08", "f09", "f10",
       "f11", "f12", "f13", "f14", "f15", "f16", "f17", "f18", "f19", "f20",
       "f21" >>

\* every title, in the order that breaks the ties the SQL ORDER BY leaves open
TitleSeq == StoreTitles \o FallbackTitles

Titles == {TitleSeq[i] : i \in 1..Len(TitleSeq)}

TitleIdx(t) == CHOOSE i \in 1..Len(TitleSeq) : TitleSeq[i] = t

Range(s) == {s[i] : i \in 1..Len(s)}

Min(a, b) == IF a < b THEN a ELSE b

\* ------------------------------------------------------------ the store at start

InitUsers ==
    { [username |-> "alice", id |-> 1], [username |-> "bob", id |-> 2],
      [username |-> "carol", id |-> 3], [username |-> "erin", id |-> 4] }

InitRatings ==
    \* alice: four ratings
    { [user_id |-> 1, title |-> "f01", rating |-> 10],
      [user_id |-> 1, title |-> "f02", rating |-> 8],
      [user_id |-> 1, title |-> "f21", rating |-> 10],
      [user_id |-> 1, title |-> "The Godfather", rating |-> 10] }
    \cup
    \* bob: twenty-one ratings, f21 the lowest
    { [user_id |-> 2, title |-> StoreTitles[i], rating |-> 8] : i \in 1..10 }
    \cup
    { [user_id |-> 2, title |-> StoreTitles[i], rating |-> 10] : i \in 11..20 }
    \cup
    { [user_id |-> 2, title |-> "f21", rating |-> 7] }
    \cup
    \* carol: seventeen ratings
    { [user_id |-> 3, title |-> StoreTitles[i], rating |-> 6] : i \in 3..10 }
    \cup
    { [user_id |-> 3, title |-> StoreTitles[i], rating |-> 8] : i \in 11..18 }
    \cup
    { [user_id |-> 3, title |-> "f21", rating |-> 10] }

InitMovies == {r.title : r \in InitRatings}

\* ------------------------------------------------------------ the queries of get_user_data_efficiently

\* the SQL ORDER BY leaves the order of equal keys open: tb picks one of two orders
TieBreaks == {"asc", "desc"}

TieBefore(t1, t2, tb) ==
    IF tb = "asc" THEN TitleIdx(t1) < TitleIdx(t2) ELSE TitleIdx(t1) > TitleIdx(t2)

UserId(users, u) ==
    IF \E x \in users : x.username = u
    THEN (CHOOSE x \in users : x.username = u).id
    ELSE 0

UserExists(users, u) == \E x \in users : x.username = u

\* ratings r JOIN users u JOIN movies m WHERE u.username = usuario
UserRows(users, movies, ratings, u) ==
    {r \in ratings : r.user_id = UserId(users, u) /\ UserExists(users, u) /\ r.title \in movies}

RatingBefore(a, b, tb) ==
    \/ a.rating > b.rating
    \/ a.rating = b.rating /\ TieBefore(a.title, b.title, tb)

\* the rows in ORDER BY order: the row at position i has i - 1 rows before it
SortByRating(rows, tb) ==
    [i \in 1..Cardinality(rows) |->
        CHOOSE a \in rows : Cardinality({b \in rows : RatingBefore(b, a, tb)}) = i - 1]

Take(s, n) == SubSeq(s, 1, Min(n, Len(s)))

\* ORDER BY r.rating DESC LIMIT 20: a sequence of <<title, rating>>
QueryUser(users, movies, ratings, u, tb) ==
    LET sorted == SortByRating(UserRows(users, movies, ratings, u), tb)
    IN  Take([i \in 1..Len(sorted) |-> <<sorted[i].title, sorted[i].rating>>],
             USER_MOVIES_LIMIT)

RECURSIVE SumRatings(_)
SumRatings(rows) ==
    IF rows = {} THEN 0
    ELSE LET r == CHOOSE r \in rows : TRUE
         IN  r.rating + SumRatings(rows \ {r})

\* ratings r JOIN movies m GROUP BY m.title HAVING COUNT(r.rating) >= 2
PopularGroups(movies, ratings) ==
    LET rowsOf(t) == {r \in ratings : r.title = t}
    IN  { [title |-> t, sum |-> SumRatings(rowsOf(t)), cnt |-> Cardinality(rowsOf(t))] :
            t \in {m \in movies : Cardinality(rowsOf(m)) >= POPULAR_MIN_COUNT} }

\* the average of a is above the average of b (sum / cnt, compared exactly)
AvgBefore(a, b, tb) ==
    \/ a.sum * b.cnt > b.sum * a.cnt
    \/ a.sum * b.cnt = b.sum * a.cnt /\ TieBefore(a.title, b.title, tb)

\* the groups in ORDER BY order: the group at position i has i - 1 groups before it
SortByAvg(groups, tb) ==
    [i \in 1..Cardinality(groups) |->
        CHOOSE a \in groups : Cardinality({b \in groups : AvgBefore(b, a, tb)}) = i - 1]

\* ORDER BY AVG(r.rating) DESC LIMIT 15: a sequence of [title, sum, cnt]
QueryPopular(movies, ratings, tb) ==
    Take(SortByAvg(PopularGroups(movies, ratings), tb), POPULAR_LIMIT)

\* ------------------------------------------------------------ simple_recommendation_algorithm

RECURSIVE SumSeq(_)
SumSeq(s) == IF s = <<>> THEN 0 ELSE s[1][2] + SumSeq(Tail(s))

\* "high" when more than half of the user's ratings are >= 4.0 stars
UserTendency(user_movies) ==
    IF Len(user_movies) = 0 THEN "neutral"
    ELSE IF 2 * Cardinality({i \in 1..Len(user_movies) : user_movies[i][2] >= 8})
              > Len(user_movies)
         THEN "high" ELSE "low"

Abs(x) == IF x < 0 THEN -x ELSE x

\* The multipliers of the score, each in twentieths (24 = 1.2, 23 = 1.15,
\* 22 = 1.1, 21 = 1.05, 20 = 1).  usum / ucnt is the user's average (3.0 stars
\* when the user has no rating), p.sum / p.cnt the film's.
SimilarityBonus(p, usum, ucnt) ==
    LET diff == Abs(p.sum * ucnt - usum * p.cnt)
    IN  IF diff < 1 * p.cnt * ucnt THEN 24
        ELSE IF diff < 2 * p.cnt * ucnt THEN 22
        ELSE 20

TendencyBonus(p, tendency) ==
    IF tendency = "high" /\ p.sum >= 8 * p.cnt THEN 23
    ELSE IF tendency = "low" /\ p.sum <= 7 * p.cnt THEN 22
    ELSE 20

HighBonus(p) == IF p.sum >= 9 * p.cnt THEN 21 ELSE 20

\* the score of a film is num / (16000 * cnt) stars
Score(p, user_movies) ==
    LET usum == IF Len(user_movies) > 0 THEN SumSeq(user_movies) ELSE 6
        ucnt == IF Len(user_movies) > 0 THEN Len(user_movies) ELSE 1
    IN  [filme |-> p.title,
         num |-> p.sum * SimilarityBonus(p, usum, ucnt)
                       * TendencyBonus(p, UserTendency(user_movies)) * HighBonus(p),
         cnt |-> p.cnt]

ScoreAbove(a, b) == a.num * b.cnt > b.num * a.cnt

UserWatched(user_movies) == {user_movies[i][1] : i \in 1..Len(user_movies)}

\* the candidates in the order of popular_movies
Candidates(data) ==
    LET unseen == SelectSeq(data.popular_movies,
                            LAMBDA p : p.title \notin UserWatched(data.user_movies))
    IN  [i \in 1..Len(unseen) |-> Score(unseen[i], data.user_movies)]

\* list.sort(key=score, reverse=True): stable, equal scores keep their order
\* mutant: list.sort without reverse=True
SortByScoreAscending(s) ==
    LET before(j, i) == ScoreAbove(s[i], s[j]) \/ (~ScoreAbove(s[j], s[i]) /\ j < i)
    IN  [k \in 1..Len(s) |->
            s[CHOOSE i \in 1..Len(s) :
                  Cardinality({j \in 1..Len(s) : before(j, i)}) = k - 1]]

SortByScore(s) ==
    LET before(j, i) == ScoreAbove(s[j], s[i]) \/ (~ScoreAbove(s[i], s[j]) /\ j < i)
    IN  [k \in 1..Len(s) |->
            s[CHOOSE i \in 1..Len(s) :
                  Cardinality({j \in 1..Len(s) : before(j, i)}) = k - 1]]

simple_recommendation_algorithm(data) == SortByScore(Candidates(data))

\* ------------------------------------------------------------ the response bodies

EmptyMetadata ==
    [total_usuarios |-> 0, total_filmes |-> 0, filmes_nao_vistos |-> 0,
     total_recomendacoes |-> 0]

\* the bodies that carry "error": user_not_found, insufficient_data, error, rate_limited
ErrorBody(status) ==
    [error |-> TRUE, status |-> status, recomendacoes |-> <<>>, metadata |-> EmptyMetadata]

\* quick_fallback(): the ten fixed films, score in tenths
quick_fallback ==
    [status |-> "success",
     recomendacoes |-> [i \in 1..Len(FallbackTitles) |->
                           [filme |-> FallbackTitles[i], num |-> FallbackScores[i] * 1600,
                            cnt |-> 1]],
     metadata |-> [total_usuarios |-> 1, total_filmes |-> 10, filmes_nao_vistos |-> 10,
                   total_recomendacoes |-> 10, mode |-> "fallback"]]

\* the response of the normal path: the first five of the sorted candidates;
\* data_dict is deleted before total_filmes is computed, so total_filmes is 0
SuccessBody(data) ==
    LET top == Take(simple_recommendation_algorithm(data), TOP_N)
    IN  [status |-> "success",
         recomendacoes |-> top,
         metadata |-> [total_usuarios |-> 1, total_filmes |-> 0,
                       filmes_nao_vistos |-> Len(top), total_recomendacoes |-> Len(top),
                       mode |-> "ultra_fast"]]

Return(body) == [kind |-> "return", body |-> body]
Raise(exc) == [kind |-> "raise", exc |-> exc]
NoRet == [kind |-> "none"]

\* ------------------------------------------------------------ the scrape

\* the films of the scraped profile in page order, the first without a rating
ScrapeFilms == << <<"f01", NoRating>>, <<"The Godfather", 9>>, <<"f02", 8>> >>

\* what the page loop of scrap can collect: the first n films, n up to MaxFilms
ScrapeResults == { SubSeq(ScrapeFilms, 1, n) : n \in 0..MaxFilms }

NoTx == [users |-> {}, movies |-> {}, ratings |-> {}]
NoScr == [watched |-> <<>>, i |-> 0, user_id |-> 0]
NoData == [user_movies |-> <<>>, popular_movies |-> <<>>]
NoCur == [current_time |-> 0, data |-> NoData]
NoPrev == [known |-> FALSE, list |-> <<>>]
NoReq == [client |-> "", usuario |-> "", arrival |-> 0, after429 |-> FALSE, prev |-> NoPrev]
Workers == {"w1", "w2"}
NoWork == [pc |-> "idle", username |-> "", row |-> {}, id |-> 0, conflict |-> FALSE,
           fault |-> FALSE]
\* the processes that call DataManager.add_user, and a process outside a call
Procs == {"p1", "p2"}
NoCall == [pc |-> "idle", username |-> "", users |-> <<>>]

\* no selection of a cluster count is in progress
NoSelection == [pc |-> "idle", rows |-> 0, scores |-> <<>>, best_k |-> 0, best_score |-> 0]

\* cache_user has not been called
NoAnswer == [http |-> 0]

NoGhost == [entry |-> -1, entries |-> 0, onboard |-> 0, loads |-> 0, fired |-> 0,
            firedAt |-> "", checked |-> FALSE, hit |-> FALSE, tsAge |-> -1, putAge |-> -1,
            verify |-> "", scrapes |-> 0, commits |-> 0, puts |-> 0, faults |-> 0,
            collab |-> 0]

\* ------------------------------------------------------------ the state

VARIABLES
    now,             \* time.time(), in seconds
    mainThread,      \* whether requests are handled in the interpreter's main thread
    seconds,         \* the deadline the wrapper of gerar_recomendacoes was built with
    request_counts,  \* client -> the instants of its admitted requests in the window
    user_cache,      \* username -> [data, timestamp], NoEntry when absent
    dbUsers,         \* committed rows of users: [username, id]
    dbMovies,        \* committed titles of movies
    dbRatings,       \* committed rows of ratings: [user_id, title, rating]
    nextId,          \* the sequence of users.id
    tx,              \* the rows the open transaction of scrap has inserted
    pc,              \* where the request in progress stands ("idle" when none)
    req,             \* the request in progress: client, usuario, arrival, and history:
                     \* after429, prev (what the request before it was answered)
    frames,          \* one old_handler per active call of the timeout wrapper
    cur,             \* current_time and data_dict of the innermost gerar_recomendacoes
    handler,         \* the installed SIGALRM handler
    alarm,           \* the instant the pending alarm fires, NoAlarm when none
    scr,             \* the locals of scrap: watched_movies, position, user_id
    ret,             \* the value or exception leaving gerar_recomendacoes
    response,        \* the last HTTP response
    nreq,            \* requests arrived so far
    admitted,        \* history: client -> every instant at which it was admitted
    cachePut,        \* history: username -> instant at which its entry was put
    ratings_file,    \* the rows of DataManager's ratings.json: [user_id, movie_id, rating]
    wk,              \* worker -> its call of insert_user and the transaction around it
    rewrote,         \* history: a rating was written for a pair that had one, per store
    users_file,      \* the rows of DataManager's users.json: [id, username]
    movies_file,     \* the rows of DataManager's movies.json: [id, title]
    au,              \* process -> its call of DataManager.add_user: position and locals
    dmh,             \* history: what scrape_user_data stored, whom add_user has added
    cl,              \* the selection of the cluster count: position, scores, best so far
    ca,              \* the HTTP code cache_user has answered with, until time passes or
                     \* a request arrives
    g                \* history of the request in progress

vars == << now, mainThread, seconds, request_counts, user_cache, dbUsers, dbMovies, dbRatings,
           nextId, tx, pc, req, frames, cur, handler, alarm, scr, ret, response, nreq,
           admitted, cachePut, ratings_file, wk, rewrote, users_file, movies_file, au,
           dmh, cl, ca, g >>

storeVars == << dbUsers, dbMovies, dbRatings, nextId >>
admitVars == << request_counts, admitted, nreq >>
cacheVars == << user_cache, cachePut >>
sigVars == << handler, alarm >>
\* the state outside the request handler of this worker
dmVars == << users_file, movies_file, au, dmh, cl >>
outerVars == << ratings_file, wk, rewrote, dmVars, ca >>

\* the state after the module is loaded and the worker started
InitState ==
    /\ mainThread \in BOOLEAN
    /\ user_cache = [u \in Usernames |-> NoEntry]
    /\ dbUsers = InitUsers
    /\ dbMovies = InitMovies
    /\ dbRatings = InitRatings
    /\ nextId = 5
    /\ tx = NoTx
    /\ pc = "idle"
    /\ req = NoReq
    /\ frames = <<>>
    /\ cur = NoCur
    /\ handler = "SIG_DFL"
    /\ alarm = NoAlarm
    /\ scr = NoScr
    /\ ret = NoRet
    /\ response = NoResponse
    /\ nreq = 0
    /\ cachePut = [u \in Usernames |-> -1]
    /\ ratings_file = <<>>
    /\ wk = [w \in Workers |-> NoWork]
    /\ rewrote = [dm |-> FALSE, sql |-> FALSE]
    /\ users_file = <<>>
    /\ movies_file = <<>>
    /\ au = [p \in Procs |-> NoCall]
    /\ dmh = [scraped |-> {}, added |-> {}]
    /\ ca = NoAnswer
    /\ cl = NoSelection
    /\ g = NoGhost

Init ==
    /\ InitState
    /\ seconds = REQUEST_TIMEOUT
    /\ now = 0
    /\ request_counts = [c \in Clients |-> <<>>]
    /\ admitted = [c \in Clients |-> <<>>]

\* ------------------------------------------------------------ time and the alarm

\* seconds a step of a request may take: the deadline itself in the
\* specifications of several requests, less than it in those of one request
CoarseSteps == {REQUEST_TIMEOUT}
FineSteps == {3}
\* seconds a request is followed after its arrival
MaxElapsed == 6

\* the pending alarm has reached its instant: SIGALRM is delivered next
Due == alarm # NoAlarm /\ now >= alarm

\* Time passes while a request is in progress, up to the instant of the alarm.
Tick(d) ==
    /\ pc \notin {"idle", "call"}
    /\ ~Due
    /\ now < req.arrival + MaxElapsed
    /\ now' = IF alarm # NoAlarm /\ now + d > alarm THEN alarm ELSE now + d
    /\ UNCHANGED << mainThread, seconds, outerVars, storeVars, admitVars, cacheVars, sigVars, tx, pc, req,
                    frames, cur, scr, ret, response, g >>

\* Time passes between two requests.
Idle(d, horizon) ==
    /\ pc = "idle"
    /\ now + d <= horizon
    /\ now' = now + d
    /\ ca' = NoAnswer
    /\ UNCHANGED << mainThread, seconds, ratings_file, wk, rewrote, dmVars, storeVars, admitVars, cacheVars, sigVars, tx, pc, req,
                    frames, cur, scr, ret, response, g >>

\* ------------------------------------------------------------ obter_recomendacoes: admission

\* mutant: the window is never cleaned
PruneNothing(window, current_time) == window

\* the instants of the window that are younger than RATE_LIMIT_WINDOW
Prune(window, current_time) ==
    SelectSeq(window, LAMBDA t : current_time - t < RATE_LIMIT_WINDOW)

\* mutant: the limit is reached one request late
LimitReachedLate(window) == Len(window) > RATE_LIMIT_MAX_REQUESTS

\* the rate limit is reached
LimitReached(window) == Len(window) >= RATE_LIMIT_MAX_REQUESTS

\* history: the request before this one was of the same client and got 429
After429(c) == response # NoResponse /\ response.http = 429 /\ req.client = c

\* history: the ranked list of the request before this one, when it was for the
\* same user and was answered by the scoring
PrevList(u) ==
    IF /\ response # NoResponse
       /\ req.usuario = u
       /\ response.http = 200
       /\ response.body.status = "success"
       /\ response.body.metadata.mode = "ultra_fast"
    THEN [known |-> TRUE, list |-> response.body.recomendacoes]
    ELSE NoPrev

NewRequest(c, u) ==
    [client |-> c, usuario |-> u, arrival |-> now, after429 |-> After429(c),
     prev |-> PrevList(u)]

\* mutant: the rejection is answered like a failure of the handler
ArriveRejectAsError(c, u) ==
    /\ pc = "idle"
    /\ LimitReached(Prune(request_counts[c], now))
    /\ request_counts' = [request_counts EXCEPT ![c] = Prune(request_counts[c], now)]
    /\ response' = [http |-> 500, body |-> ErrorBody("error")]
    /\ req' = NewRequest(c, u)
    /\ nreq' = nreq + 1
    /\ g' = NoGhost
    /\ ca' = NoAnswer
    /\ UNCHANGED << now, mainThread, seconds, ratings_file, wk, rewrote, dmVars, storeVars, admitted, cacheVars, sigVars, tx, pc,
                    frames, cur, scr, ret >>

\* mutant: the limit is looked at after the dataset of the user was loaded and cached
ArriveRejectAfterLoad(c, u) ==
    /\ pc = "idle"
    /\ LimitReached(Prune(request_counts[c], now))
    /\ request_counts' = [request_counts EXCEPT ![c] = Prune(request_counts[c], now)]
    /\ response' = [http |-> 429, body |-> ErrorBody("rate_limited")]
    /\ req' = NewRequest(c, u)
    /\ nreq' = nreq + 1
    /\ g' = NoGhost
    /\ ca' = NoAnswer
    /\ user_cache' = [user_cache EXCEPT ![u] = [data |-> NoData, timestamp |-> now]]
    /\ cachePut' = [cachePut EXCEPT ![u] = now]
    /\ UNCHANGED << now, mainThread, seconds, ratings_file, wk, rewrote, dmVars, storeVars, admitted, sigVars, tx, pc,
                    frames, cur, scr, ret >>

\* mutant: the instant of a rejected request is kept in the window
ArriveRejectCounted(c, u) ==
    /\ pc = "idle"
    /\ LimitReached(Prune(request_counts[c], now))
    /\ request_counts' = [request_counts EXCEPT ![c] = Append(Prune(request_counts[c], now), now)]
    /\ response' = [http |-> 429, body |-> ErrorBody("rate_limited")]
    /\ req' = NewRequest(c, u)
    /\ nreq' = nreq + 1
    /\ g' = NoGhost
    /\ ca' = NoAnswer
    /\ UNCHANGED << now, mainThread, seconds, ratings_file, wk, rewrote, dmVars, storeVars,
                    admitted, cacheVars, sigVars, tx, pc, frames, cur, scr, ret >>

ArriveReject(c, u) ==
    /\ pc = "idle"
    /\ LimitReached(Prune(request_counts[c], now))
    /\ request_counts' = [request_counts EXCEPT ![c] = Prune(request_counts[c], now)]
    /\ response' = [http |-> 429, body |-> ErrorBody("rate_limited")]
    /\ req' = NewRequest(c, u)
    /\ nreq' = nreq + 1
    /\ g' = NoGhost
    /\ ca' = NoAnswer
    /\ UNCHANGED << now, mainThread, seconds, ratings_file, wk, rewrote, dmVars, storeVars, admitted, cacheVars, sigVars, tx, pc,
                    frames, cur, scr, ret >>

\* mutant: the instant is appended after the computation, when it succeeded
ArriveAdmitUnrecorded(c, u) ==
    /\ pc = "idle"
    /\ ~LimitReached(Prune(request_counts[c], now))
    /\ request_counts' = [request_counts EXCEPT ![c] = Prune(request_counts[c], now)]
    /\ admitted' = [admitted EXCEPT ![c] = Append(admitted[c], now)]
    /\ response' = NoResponse
    /\ req' = NewRequest(c, u)
    /\ nreq' = nreq + 1
    /\ g' = NoGhost
    /\ ca' = NoAnswer
    /\ pc' = "call"
    /\ cur' = NoCur
    /\ UNCHANGED << now, mainThread, seconds, ratings_file, wk, rewrote, dmVars, storeVars, cacheVars, sigVars, tx, frames, scr, ret >>

ArriveAdmit(c, u) ==
    /\ pc = "idle"
    /\ ~LimitReached(Prune(request_counts[c], now))
    /\ request_counts' = [request_counts EXCEPT ![c] = Append(Prune(request_counts[c], now), now)]
    /\ admitted' = [admitted EXCEPT ![c] = Append(admitted[c], now)]
    /\ response' = NoResponse
    /\ req' = NewRequest(c, u)
    /\ nreq' = nreq + 1
    /\ g' = NoGhost
    /\ ca' = NoAnswer
    /\ pc' = "call"
    /\ cur' = NoCur
    /\ UNCHANGED << now, mainThread, seconds, ratings_file, wk, rewrote, dmVars, storeVars, cacheVars, sigVars, tx, frames, scr, ret >>

\* ------------------------------------------------------------ leaving gerar_recomendacoes

\* except TimeoutError / except Exception of gerar_recomendacoes
GerarExcept(exc) ==
    IF exc = "TimeoutError" THEN quick_fallback ELSE ErrorBody("error")

\* mutant: no except around the call, the framework answers the exception
ObterResponseUncaught(r) ==
    IF r.kind = "return"
    THEN [http |-> 200, body |-> r.body]
    ELSE [http |-> 500, body |-> [message |-> "Internal Server Error"]]

\* try / except of obter_recomendacoes around the call
ObterResponse(r) ==
    IF r.kind = "return"
    THEN [http |-> 200, body |-> r.body]
    ELSE [http |-> 500, body |-> ErrorBody("error")]

\* r leaves a call of the wrapper made at the given depth: depth 0 is the call of
\* obter_recomendacoes, any other the recursive call inside the try of the caller
Deliver(r, depth) ==
    IF depth = 0
    THEN /\ pc' = "idle"
         /\ ret' = NoRet
         /\ response' = ObterResponse(r)
    ELSE /\ pc' = "w_finally"
         /\ ret' = IF r.kind = "return" THEN r ELSE Return(GerarExcept(r.exc))
         /\ response' = response

\* the body of gerar_recomendacoes ends: the finally of the wrapper is next
Finish(r) ==
    /\ pc' = "w_finally"
    /\ ret' = r

Pop(s) == SubSeq(s, 1, Len(s) - 1)

\* finally: signal.alarm(0); signal.signal(SIGALRM, old_handler)
WrapperFinally ==
    /\ pc = "w_finally"
    /\ ~Due
    /\ alarm' = NoAlarm
    /\ handler' = frames[Len(frames)]
    /\ frames' = Pop(frames)
    /\ Deliver(ret, Len(frames) - 1)
    /\ UNCHANGED << now, mainThread, seconds, outerVars, storeVars, admitVars, cacheVars, tx, req, cur,
                    scr, g >>

\* SIGALRM inside the finally, before signal.alarm(0): the TimeoutError replaces
\* what was leaving and the old handler is not restored
FireFinally ==
    /\ pc = "w_finally"
    /\ Due
    /\ alarm' = NoAlarm
    /\ frames' = Pop(frames)
    /\ Deliver(Raise("TimeoutError"), Len(frames) - 1)
    /\ g' = [g EXCEPT !.fired = @ + 1, !.firedAt = pc]
    /\ UNCHANGED << now, mainThread, seconds, outerVars, storeVars, admitVars, cacheVars, handler, tx, req,
                    cur, scr >>

\* ------------------------------------------------------------ timeout_decorator: entry

\* signal.signal raises ValueError outside the main thread, before the try
EnterNotMainThread ==
    /\ pc = "call"
    /\ ~mainThread
    /\ Deliver(Raise("ValueError"), Len(frames))
    /\ g' = [g EXCEPT !.faults = @ + 1]
    /\ UNCHANGED << now, mainThread, seconds, outerVars, storeVars, admitVars, cacheVars, sigVars, tx, req,
                    frames, cur, scr >>

\* the recursive call at the interpreter's recursion limit
EnterRecursionError ==
    /\ pc = "call"
    /\ mainThread
    /\ Len(frames) >= MaxDepth
    /\ Deliver(Raise("RecursionError"), Len(frames))
    /\ g' = [g EXCEPT !.faults = @ + 1]
    /\ UNCHANGED << now, mainThread, seconds, outerVars, storeVars, admitVars, cacheVars, sigVars, tx, req,
                    frames, cur, scr >>

\* signal.alarm(seconds): 0 cancels the alarm and arms none
Arm(secs, t) == IF secs = 0 THEN NoAlarm ELSE t + secs

\* old_handler = signal.signal(SIGALRM, timeout_handler); signal.alarm(seconds)
Enter ==
    /\ pc = "call"
    /\ mainThread
    /\ Len(frames) < MaxDepth
    /\ frames' = Append(frames, handler)
    /\ handler' = "timeout_handler"
    /\ alarm' = Arm(seconds, now)
    /\ pc' = "g_start"
    /\ g' = [g EXCEPT !.entries = @ + 1, !.entry = IF @ = -1 THEN now ELSE @]
    /\ UNCHANGED << now, mainThread, seconds, outerVars, storeVars, admitVars, cacheVars, tx, req, cur, scr,
                    ret, response >>

\* SIGALRM before the try of gerar_recomendacoes is entered
FireStart ==
    /\ pc = "g_start"
    /\ Due
    /\ alarm' = NoAlarm
    /\ Finish(Raise("TimeoutError"))
    /\ g' = [g EXCEPT !.fired = @ + 1, !.firedAt = pc]
    /\ UNCHANGED << now, mainThread, seconds, outerVars, storeVars, admitVars, cacheVars, handler, tx, req,
                    frames, cur, scr, response >>

\* ------------------------------------------------------------ gerar_recomendacoes: cache and load

\* mutant: an entry of exactly CACHE_EXPIRY seconds is still fresh
CacheFreshInclusive(entry, current_time) ==
    entry # NoEntry /\ current_time - entry.timestamp <= CACHE_EXPIRY

\* usuario_alvo in user_cache and current_time - timestamp < CACHE_EXPIRY
CacheFresh(entry, current_time) ==
    entry # NoEntry /\ current_time - entry.timestamp < CACHE_EXPIRY

\* user_cache[usuario_alvo] = {'data': data_dict, 'timestamp': current_time}
CachePut(cache, u, data, current_time) ==
    [cache EXCEPT ![u] = [data |-> data, timestamp |-> current_time]]

\* history: the age of an entry stamped (or put) at instant t, -1 when there is none
EntryAge(t) == IF t = -1 THEN -1 ELSE now - t

\* mutant: the store is read although the entry is fresh
BeginTryHitReload ==
    /\ pc = "g_start"
    /\ ~Due
    /\ CacheFresh(user_cache[req.usuario], now)
    /\ cur' = [current_time |-> now, data |-> user_cache[req.usuario].data]
    /\ pc' = "g_load"
    /\ g' = [g EXCEPT !.checked = TRUE, !.hit = TRUE, !.loads = @ + 1,
                       !.tsAge = EntryAge(user_cache[req.usuario].timestamp),
                       !.putAge = EntryAge(cachePut[req.usuario])]
    /\ UNCHANGED << now, mainThread, seconds, outerVars, storeVars, admitVars, cacheVars, sigVars, tx, req,
                    frames, scr, ret, response >>

\* current_time = time.time(); the entry is fresh: no store read
BeginTryHit ==
    /\ pc = "g_start"
    /\ ~Due
    /\ CacheFresh(user_cache[req.usuario], now)
    /\ cur' = [current_time |-> now, data |-> user_cache[req.usuario].data]
    /\ pc' = "g_score"
    /\ g' = [g EXCEPT !.checked = TRUE, !.hit = TRUE,
                       !.tsAge = EntryAge(user_cache[req.usuario].timestamp),
                       !.putAge = EntryAge(cachePut[req.usuario])]
    /\ UNCHANGED << now, mainThread, seconds, outerVars, storeVars, admitVars, cacheVars, sigVars, tx, req,
                    frames, scr, ret, response >>

\* current_time = time.time(); no fresh entry: get_user_data_efficiently is called
BeginTryMiss ==
    /\ pc = "g_start"
    /\ ~Due
    /\ ~CacheFresh(user_cache[req.usuario], now)
    /\ cur' = [current_time |-> now, data |-> NoData]
    /\ pc' = "g_load"
    /\ g' = [g EXCEPT !.checked = TRUE, !.hit = FALSE, !.loads = @ + 1,
                       !.tsAge = EntryAge(user_cache[req.usuario].timestamp),
                       !.putAge = EntryAge(cachePut[req.usuario])]
    /\ UNCHANGED << now, mainThread, seconds, outerVars, storeVars, admitVars, cacheVars, sigVars, tx, req,
                    frames, scr, ret, response >>

\* the store raises inside get_user_data_efficiently: (None, "error")
LoadError ==
    /\ pc = "g_load"
    /\ ~Due
    /\ Finish(Return(ErrorBody("error")))
    /\ g' = [g EXCEPT !.faults = @ + 1, !.collab = @ + 1]
    /\ UNCHANGED << now, mainThread, seconds, outerVars, storeVars, admitVars, cacheVars, sigVars, tx, req,
                    frames, cur, scr, response >>

\* SIGALRM inside get_user_data_efficiently: its except Exception takes the
\* TimeoutError and the load ends with (None, "error")
FireLoad ==
    /\ pc = "g_load"
    /\ Due
    /\ alarm' = NoAlarm
    /\ Finish(Return(ErrorBody("error")))
    /\ g' = [g EXCEPT !.fired = @ + 1, !.firedAt = pc]
    /\ UNCHANGED << now, mainThread, seconds, outerVars, storeVars, admitVars, cacheVars, handler, tx, req,
                    frames, cur, scr, response >>

\* (None, "user_not_found"): adicionar_usuario is called
LoadNotFound ==
    /\ pc = "g_load"
    /\ ~Due
    /\ ~UserExists(dbUsers, req.usuario)
    /\ pc' = "a_check"
    /\ g' = [g EXCEPT !.onboard = @ + 1]
    /\ UNCHANGED << now, mainThread, seconds, outerVars, storeVars, admitVars, cacheVars, sigVars, tx, req,
                    frames, cur, scr, ret, response >>

\* mutant: the entry is put before the status of the load is looked at
LoadInsufficientCached ==
    /\ pc = "g_load"
    /\ ~Due
    /\ UserExists(dbUsers, req.usuario)
    /\ UserRows(dbUsers, dbMovies, dbRatings, req.usuario) = {}
    /\ Finish(Return(ErrorBody("insufficient_data")))
    /\ user_cache' = CachePut(user_cache, req.usuario, NoData, cur.current_time)
    /\ UNCHANGED << now, mainThread, seconds, outerVars, storeVars, admitVars, cachePut, sigVars, tx, req,
                    frames, cur, scr, response, g >>

\* mutant: a user without ratings is onboarded like an unknown one
LoadInsufficientOnboards ==
    /\ pc = "g_load"
    /\ ~Due
    /\ UserExists(dbUsers, req.usuario)
    /\ UserRows(dbUsers, dbMovies, dbRatings, req.usuario) = {}
    /\ pc' = "a_check"
    /\ UNCHANGED << now, mainThread, seconds, outerVars, storeVars, admitVars, cacheVars, sigVars, tx, req,
                    frames, cur, scr, ret, response, g >>

\* (None, "insufficient_data"): the user has no rating
LoadInsufficient ==
    /\ pc = "g_load"
    /\ ~Due
    /\ UserExists(dbUsers, req.usuario)
    /\ UserRows(dbUsers, dbMovies, dbRatings, req.usuario) = {}
    /\ Finish(Return(ErrorBody("insufficient_data")))
    /\ UNCHANGED << now, mainThread, seconds, outerVars, storeVars, admitVars, cacheVars, sigVars, tx, req,
                    frames, cur, scr, response, g >>

\* (data_dict, "success"): the entry is put with the current_time taken before the load
LoadSuccess(tb) ==
    /\ pc = "g_load"
    /\ ~Due
    /\ UserExists(dbUsers, req.usuario)
    /\ UserRows(dbUsers, dbMovies, dbRatings, req.usuario) # {}
    /\ pc' = "g_score"
    /\ cachePut' = [cachePut EXCEPT ![req.usuario] = now]
    /\ g' = [g EXCEPT !.puts = @ + 1]
    /\ UNCHANGED << now, mainThread, seconds, outerVars, storeVars, admitVars, sigVars, tx, req, frames, scr,
                    ret, response >>
    /\ \E data \in {[user_movies |-> QueryUser(dbUsers, dbMovies, dbRatings, req.usuario, tb),
                      popular_movies |-> QueryPopular(dbMovies, dbRatings, tb)]} :
           /\ user_cache' = CachePut(user_cache, req.usuario, data, cur.current_time)
           /\ cur' = [cur EXCEPT !.data = data]

\* ------------------------------------------------------------ cache_user

\* what the two queries of get_user_data_efficiently return
Dataset(users, movies, ratings, u, tb) ==
    [user_movies |-> QueryUser(users, movies, ratings, u, tb),
     popular_movies |-> QueryPopular(movies, ratings, tb)]

\* the same for the initial store, computed once
InitDataset ==
    [u \in Usernames |->
        [tb \in TieBreaks |-> Dataset(InitUsers, InitMovies, InitRatings, u, tb)]]

\* the datasets get_user_data_efficiently can return with status success
StoreDatasets(users, movies, ratings, u) ==
    IF UserRows(users, movies, ratings, u) = {} THEN {}
    ELSE IF users = InitUsers /\ movies = InitMovies /\ ratings = InitRatings
         THEN { InitDataset[u][tb] : tb \in TieBreaks }
         ELSE { Dataset(users, movies, ratings, u, tb) : tb \in TieBreaks }

\* the status get_user_data_efficiently ends with; fault: the store raises
LoadStatus(users, movies, ratings, u, fault) ==
    IF fault THEN "error"
    ELSE IF ~UserExists(users, u) THEN "user_not_found"
    ELSE IF UserRows(users, movies, ratings, u) = {} THEN "insufficient_data"
    ELSE "success"

\* mutant: a fresh entry of the user is answered without a load and left as it is
cache_user_fresh_kept(u) ==
    /\ pc = "idle"
    /\ \E fault \in BOOLEAN :
          LET status == LoadStatus(dbUsers, dbMovies, dbRatings, u, fault)
          IN  IF CacheFresh(user_cache[u], now)
              THEN /\ UNCHANGED cacheVars
                   /\ ca' = [http |-> 200]
              ELSE IF status = "success"
              THEN /\ \E data \in StoreDatasets(dbUsers, dbMovies, dbRatings, u) :
                         user_cache' = CachePut(user_cache, u, data, now)
                   /\ cachePut' = [cachePut EXCEPT ![u] = now]
                   /\ ca' = [http |-> 200]
              ELSE /\ UNCHANGED cacheVars
                   /\ ca' = [http |-> 400]
    /\ UNCHANGED << now, mainThread, seconds, ratings_file, wk, rewrote, users_file,
                    movies_file, au, dmh, cl, storeVars, admitVars, sigVars, tx, pc, req, frames,
                    cur, scr, ret, response, g >>

\* GET /api/cache/<usuario> between two requests: the load is made whatever the
\* cache holds; the entry is put, stamped with the instant of the put, when the
\* load ends with success (200); with any other status nothing changes (400)
cache_user(u) ==
    /\ pc = "idle"
    /\ \E fault \in BOOLEAN :
          LET status == LoadStatus(dbUsers, dbMovies, dbRatings, u, fault)
          IN  IF status = "success"
              THEN /\ \E data \in StoreDatasets(dbUsers, dbMovies, dbRatings, u) :
                         user_cache' = CachePut(user_cache, u, data, now)
                   /\ cachePut' = [cachePut EXCEPT ![u] = now]
                   /\ ca' = [http |-> 200]
              ELSE /\ UNCHANGED cacheVars
                   /\ ca' = [http |-> 400]
    /\ UNCHANGED << now, mainThread, seconds, ratings_file, wk, rewrote, users_file,
                    movies_file, au, dmh, cl, storeVars, admitVars, sigVars, tx, pc, req, frames,
                    cur, scr, ret, response, g >>

\* ------------------------------------------------------------ gerar_recomendacoes: scoring

Recommend ==
    /\ pc = "g_score"
    /\ ~Due
    /\ UNCHANGED << now, mainThread, seconds, outerVars, storeVars, admitVars, cacheVars, sigVars, tx, req,
                    frames, cur, scr, response, g >>
    /\ \E body \in {SuccessBody(cur.data)} : Finish(Return(body))

\* the scoring raises: except Exception of gerar_recomendacoes
ScoreRaise ==
    /\ pc = "g_score"
    /\ ~Due
    /\ Finish(Return(GerarExcept("Exception")))
    /\ g' = [g EXCEPT !.faults = @ + 1]
    /\ UNCHANGED << now, mainThread, seconds, outerVars, storeVars, admitVars, cacheVars, sigVars, tx, req,
                    frames, cur, scr, response >>

\* SIGALRM during the scoring: except TimeoutError of gerar_recomendacoes
FireScore ==
    /\ pc = "g_score"
    /\ Due
    /\ alarm' = NoAlarm
    /\ Finish(Return(GerarExcept("TimeoutError")))
    /\ g' = [g EXCEPT !.fired = @ + 1, !.firedAt = pc]
    /\ UNCHANGED << now, mainThread, seconds, outerVars, storeVars, admitVars, cacheVars, handler, tx, req,
                    frames, cur, scr, response >>

\* ------------------------------------------------------------ adicionar_usuario

\* mutant: the onboarding is tried again until it succeeds
AdicionarReturnsRetrying(ok) ==
    IF ok
    THEN /\ pc' = "call"
         /\ ret' = ret
    ELSE /\ pc' = "a_check"
         /\ ret' = ret

\* if adicionar_usuario(...): return gerar_recomendacoes(...)  else: user_not_found
AdicionarReturns(ok) ==
    IF ok
    THEN /\ pc' = "call"
         /\ ret' = ret
    ELSE Finish(Return(ErrorBody("user_not_found")))

\* SELECT id FROM users WHERE username = ...: True when the row is there
CheckExists ==
    /\ pc = "a_check"
    /\ ~Due
    /\ IF UserExists(dbUsers, req.usuario)
       THEN AdicionarReturns(TRUE)
       ELSE pc' = "a_verify" /\ ret' = ret
    /\ UNCHANGED << now, mainThread, seconds, outerVars, storeVars, admitVars, cacheVars, sigVars, tx, req,
                    frames, cur, scr, response, g >>

\* the store raises in the existence check: return False
CheckError ==
    /\ pc = "a_check"
    /\ ~Due
    /\ AdicionarReturns(FALSE)
    /\ g' = [g EXCEPT !.faults = @ + 1, !.collab = @ + 1]
    /\ UNCHANGED << now, mainThread, seconds, outerVars, storeVars, admitVars, cacheVars, sigVars, tx, req,
                    frames, cur, scr, response >>

\* SIGALRM in the existence check: its except Exception returns False
FireCheck ==
    /\ pc = "a_check"
    /\ Due
    /\ alarm' = NoAlarm
    /\ AdicionarReturns(FALSE)
    /\ g' = [g EXCEPT !.fired = @ + 1, !.firedAt = pc]
    /\ UNCHANGED << now, mainThread, seconds, outerVars, storeVars, admitVars, cacheVars, handler, tx, req,
                    frames, cur, scr, response >>

\* verify_letterboxd_user: status 200
VerifyOk ==
    /\ pc = "a_verify"
    /\ ~Due
    /\ pc' = "s_fetch"
    /\ g' = [g EXCEPT !.verify = IF @ = "" THEN "ok" ELSE @, !.scrapes = @ + 1]
    /\ UNCHANGED << now, mainThread, seconds, outerVars, storeVars, admitVars, cacheVars, sigVars, tx, req,
                    frames, cur, scr, ret, response >>

\* verify_letterboxd_user: another status, or a RequestException
VerifyFail ==
    /\ pc = "a_verify"
    /\ ~Due
    /\ AdicionarReturns(FALSE)
    /\ g' = [g EXCEPT !.verify = IF @ = "" THEN "fail" ELSE @]
    /\ UNCHANGED << now, mainThread, seconds, outerVars, storeVars, admitVars, cacheVars, sigVars, tx, req,
                    frames, cur, scr, response >>

\* SIGALRM during the verification, outside every try of adicionar_usuario: the
\* TimeoutError reaches the except TimeoutError of gerar_recomendacoes, unless the
\* HTTP library has turned it into a RequestException (swallowed)
FireVerify(swallowed) ==
    /\ pc = "a_verify"
    /\ Due
    /\ alarm' = NoAlarm
    /\ IF swallowed
       THEN AdicionarReturns(FALSE)
       ELSE Finish(Return(GerarExcept("TimeoutError")))
    /\ g' = [g EXCEPT !.fired = @ + 1, !.firedAt = pc]
    /\ UNCHANGED << now, mainThread, seconds, outerVars, storeVars, admitVars, cacheVars, handler, tx, req,
                    frames, cur, scr, response >>

\* ------------------------------------------------------------ scrap.scrap

UsersSeen == dbUsers \cup tx.users
MoviesSeen == dbMovies \cup tx.movies
RatingsSeen == dbRatings \cup tx.ratings

\* insert_user: the id of the row, inserted when it is not there
insert_user(username) ==
    IF UserExists(UsersSeen, username)
    THEN [tx |-> tx, user_id |-> UserId(UsersSeen, username), nextId |-> nextId]
    ELSE [tx |-> [tx EXCEPT !.users = @ \cup {[username |-> username, id |-> nextId]}],
          user_id |-> nextId, nextId |-> nextId + 1]

\* insert_movie: the row is inserted when the title is not there
insert_movie(t, title) ==
    IF title \in dbMovies \cup t.movies THEN t
    ELSE [t EXCEPT !.movies = @ \cup {title}]

\* insert_rating: nothing is written when the pair has a rating
insert_rating(t, user_id, title, rating) ==
    IF \E r \in dbRatings \cup t.ratings : r.user_id = user_id /\ r.title = title
    THEN t
    ELSE [t EXCEPT !.ratings = @ \cup {[user_id |-> user_id, title |-> title,
                                        rating |-> rating]}]

\* one turn of the insert loop without an exception
InsertFilm(t, user_id, film) ==
    IF film[2] = NoRating
    THEN insert_movie(t, film[1])
    ELSE insert_rating(insert_movie(t, film[1]), user_id, film[1], film[2])

\* the loop goes to the next film, or to conn.commit() after the last
NextFilm ==
    IF scr.i < Len(scr.watched)
    THEN /\ scr' = [scr EXCEPT !.i = @ + 1]
         /\ pc' = "s_film"
    ELSE /\ scr' = scr
         /\ pc' = "s_commit"

\* adicionar_usuario opens the connection; scrap verifies the user again and runs
\* the page loop, which ends with watched_movies = w.  With no film, and also when
\* the connection or the second verification fails (w empty), scrap raises and
\* adicionar_usuario returns False
Fetched(w) ==
    IF w = <<>>
    THEN /\ AdicionarReturns(FALSE)
         /\ scr' = NoScr
    ELSE /\ pc' = "s_user"
         /\ ret' = ret
         /\ scr' = [watched |-> w, i |-> 1, user_id |-> 0]

Fetch(w) ==
    /\ pc = "s_fetch"
    /\ ~Due
    /\ Fetched(w)
    /\ UNCHANGED << now, mainThread, seconds, outerVars, storeVars, admitVars, cacheVars, sigVars, tx, req,
                    frames, cur, response, g >>

\* SIGALRM in the page loop: scrap's except Exception rolls back and raises, unless
\* the HTTP library has turned it into a RequestException, which ends the loop
FireFetch(swallowed, w) ==
    /\ pc = "s_fetch"
    /\ Due
    /\ alarm' = NoAlarm
    /\ IF swallowed
       THEN Fetched(w)
       ELSE AdicionarReturns(FALSE) /\ scr' = NoScr
    /\ g' = [g EXCEPT !.fired = @ + 1, !.firedAt = pc]
    /\ UNCHANGED << now, mainThread, seconds, outerVars, storeVars, admitVars, cacheVars, handler, tx, req,
                    frames, cur, response >>

InsertUserOk ==
    /\ pc = "s_user"
    /\ ~Due
    /\ LET res == insert_user(req.usuario)
       IN  /\ tx' = res.tx
           /\ nextId' = res.nextId
           /\ scr' = [scr EXCEPT !.user_id = res.user_id]
    /\ pc' = "s_film"
    /\ UNCHANGED << now, mainThread, seconds, outerVars, dbUsers, dbMovies, dbRatings, admitVars, cacheVars,
                    sigVars, req, frames, cur, ret, response, g >>

\* insert_user raises: rollback, and scrap's except Exception raises again
InsertUserFail ==
    /\ pc = "s_user"
    /\ ~Due
    /\ tx' = NoTx
    /\ scr' = NoScr
    /\ AdicionarReturns(FALSE)
    /\ g' = [g EXCEPT !.faults = @ + 1]
    /\ UNCHANGED << now, mainThread, seconds, outerVars, storeVars, admitVars, cacheVars, sigVars, req,
                    frames, cur, response >>

FireInsertUser ==
    /\ pc = "s_user"
    /\ Due
    /\ alarm' = NoAlarm
    /\ tx' = NoTx
    /\ scr' = NoScr
    /\ AdicionarReturns(FALSE)
    /\ g' = [g EXCEPT !.fired = @ + 1, !.firedAt = pc]
    /\ UNCHANGED << now, mainThread, seconds, outerVars, storeVars, admitVars, cacheVars, handler, req,
                    frames, cur, response >>

\* one film of the insert loop, inserted
FilmOk ==
    /\ pc = "s_film"
    /\ ~Due
    /\ tx' = InsertFilm(tx, scr.user_id, scr.watched[scr.i])
    /\ NextFilm
    /\ UNCHANGED << now, mainThread, seconds, outerVars, storeVars, admitVars, cacheVars, sigVars, req,
                    frames, cur, ret, response, g >>

\* insert_movie or insert_rating raises: conn.rollback() undoes the whole open
\* transaction, the loop's except Exception goes on with the next film
FilmFail ==
    /\ pc = "s_film"
    /\ ~Due
    /\ tx' = NoTx
    /\ NextFilm
    /\ g' = [g EXCEPT !.faults = @ + 1]
    /\ UNCHANGED << now, mainThread, seconds, outerVars, storeVars, admitVars, cacheVars, sigVars, req,
                    frames, cur, ret, response >>

\* SIGALRM inside the insert loop: the loop's except Exception takes the
\* TimeoutError and goes on.  where: "rollback" inside insert_movie / insert_rating,
\* "before" ahead of insert_movie, "between" after insert_movie and ahead of insert_rating
FireFilm(where) ==
    /\ pc = "s_film"
    /\ Due
    /\ alarm' = NoAlarm
    /\ tx' = CASE where = "rollback" -> NoTx
               [] where = "before" -> tx
               [] where = "between" -> insert_movie(tx, scr.watched[scr.i][1])
    /\ NextFilm
    /\ g' = [g EXCEPT !.fired = @ + 1, !.firedAt = pc]
    /\ UNCHANGED << now, mainThread, seconds, outerVars, storeVars, admitVars, cacheVars, handler, req,
                    frames, cur, ret, response >>

\* conn.commit(): what the transaction still holds becomes visible; scrap returns
\* and adicionar_usuario returns True
Commit ==
    /\ pc = "s_commit"
    /\ ~Due
    /\ dbUsers' = dbUsers \cup tx.users
    /\ dbMovies' = dbMovies \cup tx.movies
    /\ dbRatings' = dbRatings \cup tx.ratings
    /\ tx' = NoTx
    /\ scr' = NoScr
    /\ AdicionarReturns(TRUE)
    /\ g' = [g EXCEPT !.commits = @ + 1]
    /\ UNCHANGED << now, mainThread, seconds, outerVars, nextId, admitVars, cacheVars, sigVars, req, frames,
                    cur, response >>

\* conn.commit() raises: rollback, raise, adicionar_usuario returns False
CommitFail ==
    /\ pc = "s_commit"
    /\ ~Due
    /\ tx' = NoTx
    /\ scr' = NoScr
    /\ AdicionarReturns(FALSE)
    /\ g' = [g EXCEPT !.faults = @ + 1]
    /\ UNCHANGED << now, mainThread, seconds, outerVars, storeVars, admitVars, cacheVars, sigVars, req,
                    frames, cur, response >>

\* SIGALRM at the commit: before it the transaction is rolled back, after it (in
\* the summary prints) the rows stay committed; scrap raises either way
FireCommit(committed) ==
    /\ pc = "s_commit"
    /\ Due
    /\ alarm' = NoAlarm
    /\ dbUsers' = IF committed THEN dbUsers \cup tx.users ELSE dbUsers
    /\ dbMovies' = IF committed THEN dbMovies \cup tx.movies ELSE dbMovies
    /\ dbRatings' = IF committed THEN dbRatings \cup tx.ratings ELSE dbRatings
    /\ tx' = NoTx
    /\ scr' = NoScr
    /\ AdicionarReturns(FALSE)
    /\ g' = [g EXCEPT !.fired = @ + 1, !.firedAt = pc,
                       !.commits = IF committed THEN @ + 1 ELSE @]
    /\ UNCHANGED << now, mainThread, seconds, outerVars, nextId, admitVars, cacheVars, handler, req, frames,
                    cur, response >>

\* ------------------------------------------------------------ DataManager: ratings.json

\* _load_data: the rows of the file, none when it is missing or is not JSON
LoadData(file, ok) == IF ok THEN file ELSE <<>>

\* the positions of the rows of a pair
PairRows(ratings, user_id, movie_id) ==
    { i \in 1..Len(ratings) :
        ratings[i].user_id = user_id /\ ratings[i].movie_id = movie_id }

FirstRow(rows) == CHOOSE i \in rows : \A j \in rows : i <= j

\* add_rating without the search for the pair
add_rating_append(ratings, user_id, movie_id, rating) ==
    Append(ratings, [user_id |-> user_id, movie_id |-> movie_id, rating |-> rating])

\* add_rating: the first row of the pair gets the rating, a new row is appended
\* when the pair has none
add_rating(ratings, user_id, movie_id, rating) ==
    LET rows == PairRows(ratings, user_id, movie_id)
    IN  IF rows # {}
        THEN [ratings EXCEPT ![FirstRow(rows)].rating = rating]
        ELSE Append(ratings, [user_id |-> user_id, movie_id |-> movie_id,
                              rating |-> rating])

\* the pairs and ratings written to a DataManager
DmUsers == {1, 2}
DmMovies == {1, 2}
DmRatings == {6, 8}

\* DataManager.add_rating(user_id, movie_id, rating): load, change, save
AddRating(user_id, movie_id, rating, ok) ==
    /\ pc = "idle"
    /\ ratings_file' = add_rating(LoadData(ratings_file, ok), user_id, movie_id, rating)
    /\ rewrote' = [rewrote EXCEPT
                     !.dm = @ \/ PairRows(ratings_file, user_id, movie_id) # {}]
    /\ UNCHANGED << now, mainThread, seconds, wk, dmVars, ca, storeVars, admitVars, cacheVars,
                    sigVars, tx, pc, req, frames, cur, scr, ret, response, g >>

\* ------------------------------------------------------------ DataManager: users, movies

\* the keys of a row of ratings.json as Python values: add_rating stores what the
\* caller passes, and an int never equals a str
IntVal(n) == [type |-> "int", int |-> n, str |-> ""]
StrVal(s) == [type |-> "str", int |-> 0, str |-> s]

\* get_user_id returns None when no row has the username
NoId == 0

\* get_user_id: the id of the first row with the username
get_user_id(users, username) ==
    LET rows == { i \in 1..Len(users) : users[i].username = username }
    IN  IF rows = {} THEN NoId ELSE users[FirstRow(rows)].id

\* get_movie_id: the id of the first row with the title
get_movie_id(movies, title) ==
    LET rows == { i \in 1..Len(movies) : movies[i].title = title }
    IN  IF rows = {} THEN NoId ELSE movies[FirstRow(rows)].id

\* add_user on the loaded list: the list that is saved (unchanged when the
\* username is there), new_id = len(users) + 1
add_user(users, username) ==
    IF get_user_id(users, username) # NoId THEN users
    ELSE Append(users, [id |-> Len(users) + 1, username |-> username])

\* add_movie, the same for a title
add_movie(movies, title) ==
    IF get_movie_id(movies, title) # NoId THEN movies
    ELSE Append(movies, [id |-> Len(movies) + 1, title |-> title])

\* movie_id_to_title.get(key) and user_id_to_name.get(key): the rows whose int
\* id equals the key
TitlesOf(movies, key) ==
    { movies[i].title : i \in { j \in 1..Len(movies) : IntVal(movies[j].id) = key } }
NamesOf(users, key) ==
    { users[i].username : i \in { j \in 1..Len(users) : IntVal(users[j].id) = key } }

\* get_user_ratings: the (title, rating) of the rows whose user_id equals the
\* user's id and whose movie_id is the id of a movie
get_user_ratings(users, movies, ratings, username) ==
    LET user_id == get_user_id(users, username)
    IN  IF user_id = NoId THEN {}
        ELSE UNION { { <<t, ratings[i].rating>> : t \in TitlesOf(movies, ratings[i].movie_id) } :
                       i \in { j \in 1..Len(ratings) : ratings[j].user_id = IntVal(user_id) } }

\* get_all_ratings: (username, title, rating) of the rows whose two keys are ids
get_all_ratings(users, movies, ratings) ==
    UNION { { <<n, t, ratings[i].rating>> : n \in NamesOf(users, ratings[i].user_id),
                                           t \in TitlesOf(movies, ratings[i].movie_id) } :
              i \in 1..Len(ratings) }

\* ------------------------------------------------------------ populate_data.scrape_user_data

\* the profiles that are scraped into the DataManager and what the pages show
MaxWatched == 2
PopUsers == {"alice", "bob"}
PopTitles == {"f01", "f02"}
PopRatings == {NoRating, 6, 8}
WatchedLists ==
    { w \in UNION { [1..n -> PopTitles \X PopRatings] : n \in 1..MaxWatched } :
        \A i, j \in 1..Len(w) : i # j => w[i][1] # w[j][1] }

\* the loop over watched: add_movie(title), and for a film with a rating
\* add_rating(username, title, rating)
RECURSIVE StoreWatched(_, _, _, _)
StoreWatched(files, username, watched, i) ==
    IF i > Len(watched) THEN files
    ELSE LET t == watched[i][1]
             r == watched[i][2]
         IN  StoreWatched(
                 [movies |-> add_movie(files.movies, t),
                  ratings |-> IF r = NoRating THEN files.ratings
                              ELSE add_rating(files.ratings, StrVal(username), StrVal(t), r)],
                 username, watched, i + 1)

\* the (username, title, rating) for which add_rating was called without error
Added(username, watched) ==
    { <<username, watched[i][1], watched[i][2]>> :
        i \in { j \in 1..Len(watched) : watched[j][2] # NoRating } }

\* scrape_user_data(data_manager, username) after the pages gave watched: the
\* user is added when user_exists says no, then the loop stores the films
ScrapeUserData(username, watched) ==
    /\ pc = "idle"
    /\ users_file' = IF get_user_id(users_file, username) = NoId
                     THEN add_user(users_file, username)
                     ELSE users_file
    /\ LET files == StoreWatched([movies |-> movies_file, ratings |-> ratings_file],
                                 username, watched, 1)
       IN  /\ movies_file' = files.movies
           /\ ratings_file' = files.ratings
    /\ dmh' = [dmh EXCEPT !.scraped = Added(username, watched)]
    /\ UNCHANGED << now, mainThread, seconds, wk, rewrote, au, cl, ca, storeVars, admitVars,
                    cacheVars, sigVars, tx, pc, req, frames, cur, scr, ret, response, g >>

\* ------------------------------------------------------------ add_user in two processes

\* the usernames the processes add
AddUsers == {"alice", "bob", "carol"}

\* users = self._load_data(self.users_file)
AddUserLoad(p, username) ==
    /\ pc = "idle"
    /\ au[p].pc = "idle"
    /\ au' = [au EXCEPT ![p] = [pc |-> "loaded", username |-> username,
                                users |-> LoadData(users_file, TRUE)]]
    /\ UNCHANGED << now, mainThread, seconds, ratings_file, wk, rewrote, users_file,
                    movies_file, dmh, cl, ca, storeVars, admitVars, cacheVars, sigVars, tx, pc, req,
                    frames, cur, scr, ret, response, g >>

\* the rest of the call on the list it loaded: the id of the row with the
\* username is returned, or the row is appended and the list saved over the file
AddUserSave(p) ==
    /\ pc = "idle"
    /\ au[p].pc = "loaded"
    /\ LET users == add_user(au[p].users, au[p].username)
       IN  /\ users_file' = IF users = au[p].users THEN users_file ELSE users
           /\ dmh' = [dmh EXCEPT !.added = @ \cup
                        {[username |-> au[p].username,
                          id |-> get_user_id(users, au[p].username)]}]
    /\ au' = [au EXCEPT ![p] = NoCall]
    /\ UNCHANGED << now, mainThread, seconds, ratings_file, wk, rewrote, movies_file, cl, ca,
                    storeVars, admitVars, cacheVars, sigVars, tx, pc, req, frames, cur, scr,
                    ret, response, g >>

\* ------------------------------------------------------------ the choice of the cluster count

\* a rating matrix with fewer rows is scored without clustering
SmallPopulation == 3
\* the highest cluster count that is tried
MaxK == 10
\* the row counts of the matrices and the values of the quality metric: higher
\* is better, -1 when all points land in one cluster
MaxRows == 11
Qualities == {-1, 0, 1}

\* the candidates are 2..LastK(rows)
LastK(rows) == Min(MaxK, rows)

\* mutant: a later k with the same score replaces the best so far
RetainLast(sel, k, score) ==
    IF sel.best_k = 0 \/ score >= sel.best_score
    THEN [sel EXCEPT !.best_k = k, !.best_score = score]
    ELSE sel

\* the best so far after k was scored: a later k replaces it with a higher score only
Retain(sel, k, score) ==
    IF sel.best_k = 0 \/ score > sel.best_score
    THEN [sel EXCEPT !.best_k = k, !.best_score = score]
    ELSE sel

\* the engine gets a matrix below the threshold: no clustering
SkipClustering(rows) ==
    /\ pc = "idle"
    /\ cl.pc = "idle"
    /\ rows < SmallPopulation
    /\ cl' = [NoSelection EXCEPT !.pc = "skipped", !.rows = rows]
    /\ UNCHANGED << now, mainThread, seconds, ratings_file, wk, rewrote, users_file,
                    movies_file, au, dmh, ca, storeVars, admitVars, cacheVars, sigVars, tx, pc,
                    req, frames, cur, scr, ret, response, g >>

\* the engine gets a matrix at or above the threshold: the loop over k starts
SelectStart(rows) ==
    /\ pc = "idle"
    /\ cl.pc = "idle"
    /\ rows >= SmallPopulation
    /\ cl' = [NoSelection EXCEPT !.pc = "loop", !.rows = rows]
    /\ UNCHANGED << now, mainThread, seconds, ratings_file, wk, rewrote, users_file,
                    movies_file, au, dmh, ca, storeVars, admitVars, cacheVars, sigVars, tx, pc,
                    req, frames, cur, scr, ret, response, g >>

\* one turn of the loop: the matrix is clustered with the next k, the metric of
\* the labels is score
ScoreK(score) ==
    /\ cl.pc = "loop"
    /\ Len(cl.scores) + 2 <= LastK(cl.rows)
    /\ cl' = Retain([cl EXCEPT !.scores = Append(@, score)], Len(cl.scores) + 2, score)
    /\ UNCHANGED << now, mainThread, seconds, ratings_file, wk, rewrote, users_file,
                    movies_file, au, dmh, ca, storeVars, admitVars, cacheVars, sigVars, tx, pc,
                    req, frames, cur, scr, ret, response, g >>

\* after the last k: the matrix is clustered once more with the k retained
FinalClustering ==
    /\ cl.pc = "loop"
    /\ Len(cl.scores) + 2 > LastK(cl.rows)
    /\ cl' = [cl EXCEPT !.pc = "done"]
    /\ UNCHANGED << now, mainThread, seconds, ratings_file, wk, rewrote, users_file,
                    movies_file, au, dmh, ca, storeVars, admitVars, cacheVars, sigVars, tx, pc,
                    req, frames, cur, scr, ret, response, g >>

\* ------------------------------------------------------------ scrap: writes outside a request

\* the films scrap writes for a user of the store: alice, who has rated f01 and
\* not f03
SqlWriter == 1
SqlFilms == { <<"f01", 6>>, <<"f01", NoRating>>, <<"f03", 6>>, <<"f03", 10>> }

\* the ratings of a pair that the open transaction sees
SqlScores(user_id, title) ==
    { r.rating : r \in { x \in RatingsSeen : x.user_id = user_id /\ x.title = title } }

\* one turn of the insert loop of scrap run from scrap.main
WriteFilm(user_id, film) ==
    /\ pc = "idle"
    /\ tx' = InsertFilm(tx, user_id, film)
    /\ rewrote' = [rewrote EXCEPT
                     !.sql = @ \/ (film[2] # NoRating /\ SqlScores(user_id, film[1]) # {})]
    /\ UNCHANGED << now, mainThread, seconds, ratings_file, wk, dmVars, ca, storeVars, admitVars,
                    cacheVars, sigVars, pc, req, frames, cur, scr, ret, response, g >>

\* insert_movie or insert_rating raises: conn.rollback()
WriteFilmFail ==
    /\ pc = "idle"
    /\ tx # NoTx
    /\ tx' = NoTx
    /\ UNCHANGED << now, mainThread, seconds, outerVars, storeVars, admitVars, cacheVars,
                    sigVars, pc, req, frames, cur, scr, ret, response, g >>

\* conn.commit() at the end of scrap
WriteCommit ==
    /\ pc = "idle"
    /\ tx # NoTx
    /\ dbMovies' = dbMovies \cup tx.movies
    /\ dbRatings' = dbRatings \cup tx.ratings
    /\ tx' = NoTx
    /\ UNCHANGED << now, mainThread, seconds, outerVars, dbUsers, nextId, admitVars, cacheVars,
                    sigVars, pc, req, frames, cur, scr, ret, response, g >>

\* ------------------------------------------------------------ insert_user in two workers

\* the usernames the workers onboard: one the store does not know, one it knows
RaceUsers == {"dave", "alice"}

\* the users table refuses a second row of a username
UniqueViolation(username) == UserExists(dbUsers, username)

\* the row of the username that another worker's open transaction holds
HeldByOther(w, username) ==
    \E v \in Workers \ {w} : \E x \in wk[v].row : x.username = username

\* scrap calls insert_user: SELECT id FROM users WHERE username = %s, which sees
\* the committed rows; the id is returned when there is a row
SelectUser(w, username) ==
    /\ pc = "idle"
    /\ wk[w].pc = "idle"
    /\ wk' = [wk EXCEPT ![w] =
                IF UserExists(dbUsers, username)
                THEN [@ EXCEPT !.pc = "returned", !.username = username,
                               !.id = UserId(dbUsers, username)]
                ELSE [@ EXCEPT !.pc = "insert", !.username = username]]
    /\ UNCHANGED << now, mainThread, seconds, ratings_file, rewrote, dmVars, ca, storeVars, admitVars,
                    cacheVars, sigVars, tx, pc, req, frames, cur, scr, ret, response, g >>

\* INSERT INTO users ... RETURNING id is sent: the sequence gives the id
InsertIssue(w) ==
    /\ pc = "idle"
    /\ wk[w].pc = "insert"
    /\ wk' = [wk EXCEPT ![w].pc = "inserting", ![w].id = nextId]
    /\ nextId' = nextId + 1
    /\ UNCHANGED << now, mainThread, seconds, ratings_file, rewrote, dmVars, ca, dbUsers, dbMovies,
                    dbRatings, admitVars, cacheVars, sigVars, tx, pc, req, frames, cur, scr,
                    ret, response, g >>

\* the INSERT ends: it waits while another transaction holds a row of the
\* username, raises UniqueViolation when a committed row has it, and otherwise
\* the row is in the transaction and insert_user returns its id
InsertDone(w) ==
    /\ pc = "idle"
    /\ wk[w].pc = "inserting"
    /\ ~HeldByOther(w, wk[w].username)
    /\ wk' = [wk EXCEPT ![w] =
                IF UniqueViolation(wk[w].username)
                THEN [@ EXCEPT !.pc = "conflict", !.id = 0]
                ELSE [@ EXCEPT !.pc = "returned",
                               !.row = {[username |-> wk[w].username, id |-> wk[w].id]}]]
    /\ UNCHANGED << now, mainThread, seconds, ratings_file, rewrote, dmVars, ca, storeVars, admitVars,
                    cacheVars, sigVars, tx, pc, req, frames, cur, scr, ret, response, g >>

\* except UniqueViolation without the second SELECT: rollback and raise
RequeryRaises(w) ==
    /\ pc = "idle"
    /\ wk[w].pc = "conflict"
    /\ wk' = [wk EXCEPT ![w].pc = "failed", ![w].row = {}, ![w].conflict = TRUE]
    /\ UNCHANGED << now, mainThread, seconds, ratings_file, rewrote, dmVars, ca, storeVars, admitVars,
                    cacheVars, sigVars, tx, pc, req, frames, cur, scr, ret, response, g >>

\* except UniqueViolation: conn.rollback(), the SELECT again, the id of the row
\* it finds, an exception when it finds none
Requery(w) ==
    /\ pc = "idle"
    /\ wk[w].pc = "conflict"
    /\ wk' = [wk EXCEPT ![w] =
                IF UserExists(dbUsers, wk[w].username)
                THEN [@ EXCEPT !.pc = "returned", !.row = {}, !.conflict = TRUE,
                               !.id = UserId(dbUsers, wk[w].username)]
                ELSE [@ EXCEPT !.pc = "failed", !.row = {}, !.conflict = TRUE]]
    /\ UNCHANGED << now, mainThread, seconds, ratings_file, rewrote, dmVars, ca, storeVars, admitVars,
                    cacheVars, sigVars, tx, pc, req, frames, cur, scr, ret, response, g >>

\* the store fails in a statement of insert_user: except Exception rolls back and
\* raises
InsertUserError(w) ==
    /\ pc = "idle"
    /\ wk[w].pc \in {"insert", "inserting"}
    /\ wk' = [wk EXCEPT ![w].pc = "failed", ![w].row = {}, ![w].id = 0, ![w].fault = TRUE]
    /\ UNCHANGED << now, mainThread, seconds, ratings_file, rewrote, dmVars, ca, storeVars, admitVars,
                    cacheVars, sigVars, tx, pc, req, frames, cur, scr, ret, response, g >>

\* conn.commit() of the scrap that called insert_user
TxCommit(w) ==
    /\ pc = "idle"
    /\ wk[w].pc = "returned"
    /\ dbUsers' = dbUsers \cup wk[w].row
    /\ wk' = [wk EXCEPT ![w].pc = "committed", ![w].row = {}]
    /\ UNCHANGED << now, mainThread, seconds, ratings_file, rewrote, dmVars, ca, dbMovies, dbRatings,
                    nextId, admitVars, cacheVars, sigVars, tx, pc, req, frames, cur, scr, ret,
                    response, g >>

\* conn.rollback() of the scrap that called insert_user, after a failure of its own
TxRollback(w) ==
    /\ pc = "idle"
    /\ wk[w].pc = "returned"
    /\ wk' = [wk EXCEPT ![w].pc = "rolledback", ![w].row = {}, ![w].fault = TRUE]
    /\ UNCHANGED << now, mainThread, seconds, ratings_file, rewrote, dmVars, ca, storeVars, admitVars,
                    cacheVars, sigVars, tx, pc, req, frames, cur, scr, ret, response, g >>

\* ------------------------------------------------------------ the specifications

\* the steps of timeout_decorator and of gerar_recomendacoes up to the load
CoreSteps ==
    \/ EnterNotMainThread
    \/ Enter
    \/ BeginTryMiss
    \/ LoadError
    \/ WrapperFinally

\* the steps of a request for a user of the store
KnownSteps ==
    \/ BeginTryHit
    \/ LoadInsufficient
    \/ \E tb \in TieBreaks : LoadSuccess(tb)
    \/ ScoreRaise
    \/ Recommend

\* time passing inside a request, and the alarm firing in these steps
TimedSteps ==
    \/ FireStart
    \/ FireLoad
    \/ FireFinally

TimedKnownSteps ==
    \/ FireScore

\* the onboarding of a user the store does not know
OnboardSteps ==
    \/ EnterRecursionError
    \/ LoadNotFound
    \/ CheckExists
    \/ CheckError
    \/ FireCheck
    \/ VerifyOk
    \/ VerifyFail
    \/ \E swallowed \in BOOLEAN : FireVerify(swallowed)
    \/ \E w \in ScrapeResults : Fetch(w)
    \/ \E swallowed \in BOOLEAN, w \in ScrapeResults : FireFetch(swallowed, w)
    \/ InsertUserOk
    \/ InsertUserFail
    \/ FireInsertUser
    \/ FilmOk
    \/ FilmFail
    \/ \E where \in {"rollback", "before", "between"} : FireFilm(where)
    \/ Commit
    \/ CommitFail
    \/ \E committed \in BOOLEAN : FireCommit(committed)

\* Requests of one client for any user, one after the other.
Next ==
    \/ \E u \in Usernames : nreq < MaxRequests /\ ArriveAdmit("10.0.0.1", u)
    \/ \E d \in CoarseSteps : Tick(d)
    \/ CoreSteps
    \/ KnownSteps
    \/ TimedSteps
    \/ TimedKnownSteps
    \/ OnboardSteps

Spec == Init /\ [][Next]_vars

\* The first request of a fresh worker, for any user, in finer steps of time.
NextFirst ==
    \/ \E u \in Usernames : nreq = 0 /\ ArriveAdmit("10.0.0.1", u)
    \/ \E d \in FineSteps : Tick(d)
    \/ CoreSteps
    \/ \E tb \in TieBreaks : LoadSuccess(tb)
    \/ LoadInsufficient
    \/ Recommend
    \/ ScoreRaise
    \/ TimedSteps
    \/ TimedKnownSteps
    \/ OnboardSteps

SpecFirst == Init /\ [][NextFirst]_vars

\* every step of a request but the passing of time: the worker runs the handler
\* to its end, each call to the store or to the network returns or raises
RequestStep ==
    \/ CoreSteps
    \/ KnownSteps
    \/ TimedSteps
    \/ TimedKnownSteps
    \/ OnboardSteps

SpecFirstFair == SpecFirst /\ WF_vars(RequestStep)

\* Many requests of two clients for a user without ratings, each handled within
\* its instant, with up to AdmitHorizon seconds passing between them.
AdmitIdleSteps == {30, 31}

NextAdmit ==
    \/ \E c \in Clients : nreq < MaxBurst /\ ArriveAdmit(c, "erin")
    \/ \E c \in Clients : nreq < MaxBurst /\ ArriveReject(c, "erin")
    \/ \E d \in AdmitIdleSteps : Idle(d, AdmitHorizon)
    \/ EnterNotMainThread
    \/ Enter
    \/ BeginTryMiss
    \/ LoadInsufficient
    \/ WrapperFinally

SpecAdmit == Init /\ [][NextAdmit]_vars

\* Two requests for users of the store, CACHE_EXPIRY apart give or take the
\* seconds the first one took.
CacheUsers == {"alice", "erin"}
CacheIdleSteps == {297, 299}

\* requests of known users, time, and cache_user; a second call of cache_user
\* before time passes or a request arrives puts nothing the first could not put
NextCache ==
    \/ \E u \in CacheUsers : nreq < MaxRequests /\ ArriveAdmit("10.0.0.1", u)
    \/ \E d \in CacheIdleSteps : Idle(d, CacheHorizon)
    \/ \E u \in CacheUsers : ca = NoAnswer /\ cache_user(u)
    \/ \E d \in FineSteps : Tick(d)
    \/ CoreSteps
    \/ KnownSteps
    \/ TimedSteps
    \/ TimedKnownSteps

SpecCache == Init /\ [][NextCache]_vars

\* Requests for users of the store to a worker whose wrapper was built with
\* timeout_decorator(0).
InitZero ==
    /\ InitState
    /\ seconds = 0
    /\ now = 0
    /\ request_counts = [c \in Clients |-> <<>>]
    /\ admitted = [c \in Clients |-> <<>>]

ZeroUsers == {"alice", "bob", "erin"}

NextZero ==
    \/ \E u \in ZeroUsers : nreq < MaxRequests /\ ArriveAdmit("10.0.0.1", u)
    \/ \E d \in FineSteps : Tick(d)
    \/ CoreSteps
    \/ KnownSteps

SpecZero == InitZero /\ [][NextZero]_vars

\* Requests to a worker whose store holds the dataset {A: X = 5, Y = 4;
\* B: X = 4, Y = 5, Z = 3} and a user without ratings, with A = alice, B = bob,
\* X = f01, Y = f02, Z = f03 and the ratings in half stars.
ExampleUsers ==
    { [username |-> "alice", id |-> 1], [username |-> "bob", id |-> 2],
      [username |-> "erin", id |-> 3] }

ExampleRatings ==
    { [user_id |-> 1, title |-> "f01", rating |-> 10],
      [user_id |-> 1, title |-> "f02", rating |-> 8],
      [user_id |-> 2, title |-> "f01", rating |-> 8],
      [user_id |-> 2, title |-> "f02", rating |-> 10],
      [user_id |-> 2, title |-> "f03", rating |-> 6] }

InitExample ==
    /\ mainThread \in BOOLEAN
    /\ seconds = REQUEST_TIMEOUT
    /\ now = 0
    /\ request_counts = [c \in Clients |-> <<>>]
    /\ admitted = [c \in Clients |-> <<>>]
    /\ user_cache = [u \in Usernames |-> NoEntry]
    /\ dbUsers = ExampleUsers
    /\ dbMovies = {r.title : r \in ExampleRatings}
    /\ dbRatings = ExampleRatings
    /\ nextId = 4
    /\ tx = NoTx
    /\ pc = "idle"
    /\ req = NoReq
    /\ frames = <<>>
    /\ cur = NoCur
    /\ handler = "SIG_DFL"
    /\ alarm = NoAlarm
    /\ scr = NoScr
    /\ ret = NoRet
    /\ response = NoResponse
    /\ nreq = 0
    /\ cachePut = [u \in Usernames |-> -1]
    /\ ratings_file = <<>>
    /\ wk = [w \in Workers |-> NoWork]
    /\ rewrote = [dm |-> FALSE, sql |-> FALSE]
    /\ users_file = <<>>
    /\ movies_file = <<>>
    /\ au = [p \in Procs |-> NoCall]
    /\ dmh = [scraped |-> {}, added |-> {}]
    /\ ca = NoAnswer
    /\ cl = NoSelection
    /\ g = NoGhost

SpecExample == InitExample /\ [][NextCache]_vars

\* Rating writes to the two stores, with no request in progress.
NextWrites ==
    \/ \E user_id \in DmUsers, movie_id \in DmMovies, rating \in DmRatings, ok \in BOOLEAN :
          AddRating(user_id, movie_id, rating, ok)
    \/ \E film \in SqlFilms : WriteFilm(SqlWriter, film)
    \/ WriteFilmFail
    \/ WriteCommit

SpecWrites == Init /\ [][NextWrites]_vars

\* Two workers, each in a transaction of its own, onboard a user at the same time.
NextRace ==
    \/ \E w \in Workers, username \in RaceUsers : SelectUser(w, username)
    \/ \E w \in Workers : InsertIssue(w)
    \/ \E w \in Workers : InsertDone(w)
    \/ \E w \in Workers : Requery(w)
    \/ \E w \in Workers : InsertUserError(w)
    \/ \E w \in Workers : TxCommit(w)
    \/ \E w \in Workers : TxRollback(w)

SpecRace == Init /\ [][NextRace]_vars

\* profiles are scraped into one DataManager, one call after the other
NextPopulate ==
    \E username \in PopUsers, watched \in WatchedLists : ScrapeUserData(username, watched)

SpecPopulate == Init /\ [][NextPopulate]_vars

\* two processes call add_user on the same data directory
NextAddUser ==
    \/ \E p \in Procs, username \in AddUsers : AddUserLoad(p, username)
    \/ \E p \in Procs : AddUserSave(p)

SpecAddUser == Init /\ [][NextAddUser]_vars

\* the engine chooses the cluster count for a matrix
NextCluster ==
    \/ \E rows \in 1..MaxRows : SkipClustering(rows)
    \/ \E rows \in 1..MaxRows : SelectStart(rows)
    \/ \E score \in Qualities : ScoreK(score)
    \/ FinalClustering

SpecCluster == Init /\ [][NextCluster]_vars

\* ------------------------------------------------------------ the claims

\* the request that arrived last has its response
Done == pc = "idle" /\ response # NoResponse

\* the body is the fixed list of quick_fallback, tagged mode = "fallback"
IsFallback(body) ==
    /\ "mode" \in DOMAIN body.metadata
    /\ body.metadata.mode = "fallback"
    /\ body.recomendacoes = quick_fallback.recomendacoes

\* the admitted requests of client c in the RATE_LIMIT_WINDOW seconds that end
\* with its i-th admitted request
AdmittedInWindow(c, i) ==
    {j \in 1..Len(admitted[c]) :
        /\ admitted[c][j] <= admitted[c][i]
        /\ admitted[c][i] - admitted[c][j] < RATE_LIMIT_WINDOW}

\* C1: no client has more than RATE_LIMIT_MAX_REQUESTS admitted requests in any
\* trailing interval of RATE_LIMIT_WINDOW seconds.
C1_RateLimit ==
    \A c \in Clients : \A i \in 1..Len(admitted[c]) :
        Cardinality(AdmittedInWindow(c, i)) <= RATE_LIMIT_MAX_REQUESTS

\* the eleventh request of a client within the window has been rejected
C1_Witness ==
    /\ response.http = 429
    /\ Len(admitted[req.client]) = RATE_LIMIT_MAX_REQUESTS
    /\ now - admitted[req.client][1] < RATE_LIMIT_WINDOW

\* where a store call, a network call or the scoring is in progress
BlockingPcs ==
    {"g_load", "a_check", "a_verify", "s_fetch", "s_user", "s_film", "s_commit", "g_score"}

\* C2: when the alarm has fired during the store load, the existence check, the
\* external verification, the scrape and insert, or the scoring, the request is
\* answered with the fallback list and mode = "fallback", not with an error or
\* user_not_found.
C2_DeadlineGivesFallback ==
    (Done /\ g.fired > 0 /\ g.firedAt \in BlockingPcs)
        => (response.http = 200 /\ IsFallback(response.body))

\* C3: no store call, network call or scoring of a request is in progress later
\* than REQUEST_TIMEOUT after the first entry into gerar_recomendacoes.
C3_NoWorkPastDeadline ==
    (pc \in BlockingPcs /\ g.entry # -1) => now - g.entry <= REQUEST_TIMEOUT

\* C4: within one request adicionar_usuario runs at most once and
\* gerar_recomendacoes is entered at most twice.
C4_RetryBudget == g.onboard <= 1 /\ g.entries <= 2

\* C5: every admitted request ends with a response, whatever the store and the
\* external platform do: the cycle of lookup, onboarding and retry does not go on
\* forever.
C5_RequestTerminates == (pc = "call") ~> Done

\* a request that went through the onboarding and the retry has its response
C5_Witness == Done /\ g.entries >= 2

\* C6: an entry whose age has reached CACHE_EXPIRY is not served, and for such an
\* entry or an absent one gerar_recomendacoes calls the load from the store.
C6_StaleNeverServed ==
    g.checked =>
        /\ g.hit => (g.tsAge # -1 /\ g.tsAge < CACHE_EXPIRY)
        /\ (g.tsAge = -1 \/ g.tsAge >= CACHE_EXPIRY) => (~g.hit /\ g.loads >= 1)

\* a request has met an entry of CACHE_EXPIRY seconds or more and gone to the store
C6_Witness == g.checked /\ g.tsAge >= CACHE_EXPIRY /\ ~g.hit /\ g.loads >= 1

\* C7: a request that arrives CACHE_EXPIRY - 1 seconds after the entry of its user
\* was put into user_cache is served from the entry.
C7_ServedUntilExpiry ==
    (/\ pc \in {"g_load", "g_score"}
     /\ g.checked
     /\ g.entries = 1
     /\ cur.current_time = req.arrival
     /\ g.putAge = CACHE_EXPIRY - 1) => g.hit

\* the titles the user of the request in progress has rated in the store
RatedTitles ==
    {r.title : r \in {x \in dbRatings : x.user_id = UserId(dbUsers, req.usuario)}}

\* C8: for a user of the store, the response holds no film the user has rated.
C8_NoRatedItem ==
    (Done /\ response.http = 200 /\ UserExists(dbUsers, req.usuario)) =>
        \A i \in 1..Len(response.body.recomendacoes) :
            response.body.recomendacoes[i].filme \notin RatedTitles

\* C9: an admitted request is answered with HTTP 200; HTTP 500 is never returned.
C9_AlwaysOk == response # NoResponse => response.http \in {200, 429}

Statuses ==
    {"success", "insufficient_data", "user_not_found", "rate_limited", "timeout", "error"}

\* C10: every response has a body with one of the six statuses and the fields
\* recomendacoes and metadata, and every call of gerar_recomendacoes that ends,
\* with a value or an exception, ends with such a response.
C10_StructuredBody ==
    /\ response # NoResponse =>
          /\ {"status", "recomendacoes", "metadata"} \subseteq DOMAIN response.body
          /\ response.body.status \in Statuses
    /\ (pc = "idle" /\ nreq > 0) => response # NoResponse

\* an exception has left gerar_recomendacoes and has been answered with a body
C10_Witness ==
    /\ Done
    /\ response.http = 500
    /\ response.body.status = "error"
    /\ response.body.recomendacoes = <<>>

\* the request in progress has met no exception of the store, the network or the
\* scoring, its alarm has not fired, and it runs in the main thread
Undisturbed == g.faults = 0 /\ g.fired = 0 /\ mainThread

\* C11: when the lookup says user_not_found and the verification on the external
\* platform fails, the request ends with status user_not_found and no
\* recommendations, and there was no scrape, no commit, no cache write and no
\* second lookup.
C11_VerifyFailIsTerminal ==
    (Done /\ g.verify = "fail" /\ Undisturbed) =>
        /\ response.http = 200
        /\ response.body.status = "user_not_found"
        /\ response.body.recomendacoes = <<>>
        /\ g.scrapes = 0
        /\ g.commits = 0
        /\ g.puts = 0
        /\ g.loads = 1
        /\ g.entries = 1
        /\ user_cache[req.usuario] = NoEntry
        /\ ~UserExists(dbUsers, req.usuario)

\* a request whose verification failed has its response
C11_Witness ==
    /\ Done
    /\ g.verify = "fail"
    /\ Undisturbed
    /\ g.onboard = 1
    /\ response.body.status = "user_not_found"

\* C12: a request for a user the store does not know and the platform knows runs
\* one scrape and one retry and ends with success or user_not_found.
C12_OneCycleThenSuccess ==
    (Done /\ g.verify = "ok" /\ Undisturbed) =>
        /\ g.scrapes = 1
        /\ g.entries <= 2
        /\ response.body.status \in {"success", "user_not_found"}

\* the requests of the client of the last request that were admitted before it
AdmittedBefore ==
    Len(admitted[req.client]) - (IF response.http = 429 THEN 0 ELSE 1)

\* C13: the request of a client that follows its rejected eleventh request and
\* arrives RATE_LIMIT_WINDOW + 1 seconds after the client's first request is admitted.
C13_AcceptedAfterWindow ==
    (/\ req.after429
     /\ AdmittedBefore = RATE_LIMIT_MAX_REQUESTS
     /\ req.arrival = admitted[req.client][1] + RATE_LIMIT_WINDOW + 1) => response.http # 429

\* the twelfth request of the client, 61 seconds after its first, is in progress
C13_Witness ==
    /\ pc = "call"
    /\ req.after429
    /\ Len(admitted[req.client]) = RATE_LIMIT_MAX_REQUESTS + 1
    /\ req.arrival = admitted[req.client][1] + RATE_LIMIT_WINDOW + 1
    /\ admitted[req.client][RATE_LIMIT_MAX_REQUESTS + 1] = req.arrival

\* C14: a request that arrives when its client's window holds
\* RATE_LIMIT_MAX_REQUESTS instants is answered at once with HTTP 429, status
\* rate_limited and no recommendations, and is not counted as admitted.
C14_RateLimitedBody ==
    [][(nreq' = nreq + 1 /\ LimitReached(Prune(request_counts[req'.client], now))) =>
          /\ response'.http = 429
          /\ response'.body.status = "rate_limited"
          /\ response'.body.recomendacoes = <<>>
          /\ {"error", "metadata"} \subseteq DOMAIN response'.body
          /\ pc' = "idle"
          /\ admitted' = admitted]_vars

\* a rejected request has its answer
C14_Witness ==
    /\ pc = "idle"
    /\ response.http = 429
    /\ response.body = ErrorBody("rate_limited")
    /\ AdmittedBefore >= RATE_LIMIT_MAX_REQUESTS

\* C15: a request that finds a fresh entry of its user calls neither
\* get_user_data_efficiently nor adicionar_usuario: no connection to the store is
\* opened, nothing is written, and the scoring runs on the entry's dataset.
C15_HitReadsNoStore ==
    (g.checked /\ g.hit /\ g.entries = 1) =>
        /\ g.loads = 0
        /\ g.onboard = 0
        /\ g.scrapes = 0
        /\ g.commits = 0
        /\ g.puts = 0
        /\ tx = NoTx
        /\ pc \in {"g_score", "w_finally", "idle"}
        /\ pc = "g_score" => cur.data = user_cache[req.usuario].data

\* a request served from the cache has its response
C15_Witness ==
    /\ Done
    /\ g.checked
    /\ g.hit
    /\ response.http = 200
    /\ response.body.status = "success"
    /\ response.body.metadata.mode = "ultra_fast"

C17_AlarmCleanedUp ==
    (Done /\ g.entries > 0) => (alarm = NoAlarm /\ handler = "SIG_DFL")

\* C18: with a deadline of 0 seconds a request for a user with ratings is
\* answered with the fallback list, mode = "fallback".
C18_ZeroDeadlineFallback ==
    (Done /\ seconds = 0 /\ g.entries > 0 /\ req.usuario \in {"alice", "bob"}) =>
        (response.http = 200 /\ IsFallback(response.body))

\* C19: for the dataset {A: X = 5, Y = 4; B: X = 4, Y = 5, Z = 3} and the target A
\* the scoring answers with the one item Z and the score 3.3, which is
\* mean * (1 + 0.1 * count) for the one rating of 3.0.
C19_PopularityScore ==
    (/\ Done
     /\ req.usuario = "alice"
     /\ response.http = 200
     /\ response.body.status = "success"
     /\ response.body.metadata.mode = "ultra_fast") =>
        /\ Len(response.body.recomendacoes) = 1
        /\ response.body.recomendacoes[1].filme = "f03"
        /\ 10 * response.body.recomendacoes[1].num
              = 33 * 16000 * response.body.recomendacoes[1].cnt

\* C20: a request answered by the scoring for the user of the request before
\* it, the store being the one both calls read, carries the ranked list of the
\* request before it: same items, same scores, same order.
C20_SameListTwice ==
    (/\ Done
     /\ req.prev.known
     /\ dbUsers = InitUsers /\ dbMovies = InitMovies /\ dbRatings = InitRatings
     /\ response.http = 200
     /\ response.body.status = "success"
     /\ response.body.metadata.mode = "ultra_fast") =>
        response.body.recomendacoes = req.prev.list

\* the rows of a pair in the SQL store, committed or of the open transaction
SqlPairRows(user_id, title) ==
    { r \in RatingsSeen : r.user_id = user_id /\ r.title = title }

\* C21: after any sequence of rating writes each store holds at most one rating
\* per (user, item) pair.
C21_OneRatingPerPair ==
    /\ \A user_id \in DmUsers, movie_id \in DmMovies :
          Cardinality(PairRows(ratings_file, user_id, movie_id)) <= 1
    /\ \A r \in RatingsSeen : Cardinality(SqlPairRows(r.user_id, r.title)) <= 1

\* both stores have taken a write for a pair that had a rating
C21_Witness ==
    /\ rewrote.dm
    /\ rewrote.sql
    /\ Len(ratings_file) >= 2
    /\ tx.ratings # {}

\* the ratings of a pair in ratings.json
DmScores(user_id, movie_id) ==
    { ratings_file[i].rating : i \in PairRows(ratings_file, user_id, movie_id) }

\* C22: after a write of a rating for a pair, in either store, the stored score of
\* the pair is the one written, also when the pair had a rating before.
C22_LastWriteStored ==
    [][ /\ \A user_id \in DmUsers, movie_id \in DmMovies, rating \in DmRatings,
             ok \in BOOLEAN :
               AddRating(user_id, movie_id, rating, ok) =>
                   DmScores(user_id, movie_id)' = {rating}
        /\ \A film \in SqlFilms :
               (WriteFilm(SqlWriter, film) /\ film[2] # NoRating) =>
                   SqlScores(SqlWriter, film[1])' = {film[2]} ]_vars

\* a call of insert_user that has returned
Returned(w) == wk[w].pc \in {"returned", "committed"}

\* C23: of two workers that run insert_user for the same new username at the
\* same time neither fails unless the store fails: the one that meets the
\* uniqueness conflict returns the id of the committed row, which is the id the
\* other returned, two calls that have returned have the same id, and one row of
\* the username is stored.
C23_ConcurrentInsertUser ==
    /\ \A w \in Workers : wk[w].pc = "failed" => wk[w].fault
    /\ \A w \in Workers :
          (wk[w].conflict /\ Returned(w)) =>
              /\ wk[w].id = UserId(dbUsers, wk[w].username)
              /\ \E v \in Workers \ {w} :
                    wk[v].pc = "committed" /\ wk[v].username = wk[w].username
                        /\ wk[v].id = wk[w].id
    /\ \A v, w \in Workers :
          (Returned(v) /\ Returned(w) /\ wk[v].username = wk[w].username) =>
              wk[v].id = wk[w].id
    /\ \A username \in RaceUsers :
          Cardinality({x \in dbUsers : x.username = username}) <= 1
    /\ \A w \in Workers :
          wk[w].pc = "committed" =>
              Cardinality({x \in dbUsers : x.username = wk[w].username}) = 1

\* both workers onboarded dave, one of them met the uniqueness conflict
C23_Witness ==
    /\ \A w \in Workers : wk[w].pc = "committed" /\ wk[w].username = "dave"
    /\ \E w \in Workers : wk[w].conflict
    /\ \E w \in Workers : ~wk[w].conflict /\ ~wk[w].fault

\* C24: a request in which the store failed in the lookup or in the existence
\* check of adicionar_usuario, and nothing else went wrong, ends with status error.
C24_CollaboratorFailureIsError ==
    (Done /\ g.collab > 0 /\ g.faults = g.collab /\ g.fired = 0 /\ mainThread) =>
        /\ response.http = 200
        /\ response.body.status = "error"

\* the titles the candidate query can return: those with POPULAR_MIN_COUNT ratings
CandidateTitles == {p.title : p \in PopularGroups(dbMovies, dbRatings)}

\* C25: a request for a user who has rated every candidate item, with nothing
\* going wrong, ends with status success and no recommendation.
C25_NoCandidateEmptySuccess ==
    (/\ Done
     /\ Undisturbed
     /\ UserExists(dbUsers, req.usuario)
     /\ RatedTitles # {}
     /\ CandidateTitles \subseteq RatedTitles) =>
        /\ response.http = 200
        /\ response.body.status = "success"
        /\ response.body.recomendacoes = <<>>

\* C26: a request for a user of the store, with nothing going wrong, ends with
\* status insufficient_data and no recommendation when the user has fewer than
\* MIN_RATINGS ratings, and with another status when the user has that many.
C26_MinimumRatings ==
    (Done /\ Undisturbed /\ UserExists(dbUsers, req.usuario)) =>
        IF Cardinality(UserRows(dbUsers, dbMovies, dbRatings, req.usuario)) < MIN_RATINGS
        THEN /\ response.body.status = "insufficient_data"
             /\ response.body.recomendacoes = <<>>
        ELSE response.body.status # "insufficient_data"

\* C27: the arrival of a request is answered 429 exactly when the pruned window
\* of its client is full, and the step that rejects it reads and writes neither
\* the cache nor the store, calls neither gerar_recomendacoes nor
\* adicionar_usuario and leaves no request in progress.
C27_RejectionComputesNothing ==
    [][(nreq' = nreq + 1) =>
          /\ response'.http = 429 <=> LimitReached(Prune(request_counts[req'.client], now))
          /\ response'.http = 429 =>
                /\ UNCHANGED << user_cache, cachePut, storeVars, tx, sigVars, frames, cur,
                                scr, ret >>
                /\ pc' = "idle"
                /\ g' = NoGhost]_vars

\* a client with a full window was rejected twice in a row
C27_Witness ==
    /\ pc = "idle"
    /\ response.http = 429
    /\ req.after429
    /\ g = NoGhost
    /\ Len(request_counts[req.client]) = RATE_LIMIT_MAX_REQUESTS

\* C28: from its admission on, through the computation and after its response,
\* whatever the response is, the instant of an admitted request is the last of the
\* window of its client.
C28_AdmittedIsRecorded ==
    (nreq > 0 /\ (response = NoResponse \/ response.http # 429)) =>
        /\ request_counts[req.client] # <<>>
        /\ request_counts[req.client][Len(request_counts[req.client])] = req.arrival

\* an admitted request that ended with the fallback list after its deadline
C28_Witness ==
    /\ Done
    /\ IsFallback(response.body)
    /\ g.fired > 0
    /\ now > req.arrival
    /\ req.arrival \in Range(request_counts[req.client])

\* the request ended with the answer of the scoring
ScoredAnswer ==
    /\ Done
    /\ response.http = 200
    /\ response.body.status = "success"
    /\ response.body.metadata.mode = "ultra_fast"

\* C29: the answer of the scoring holds at most TOP_N items, each of them a
\* candidate of the dataset the request scored and none of them twice, in
\* descending order of score, as many as there are candidates up to TOP_N, and no
\* candidate left out has a score above the score of an item in the answer.
C29_TopNByScore ==
    ScoredAnswer =>
        LET recs == response.body.recomendacoes
            cands == Range(Candidates(cur.data))
        IN  /\ Len(recs) = Min(TOP_N, Cardinality(cands))
            /\ Range(recs) \subseteq cands
            /\ Cardinality(Range(recs)) = Len(recs)
            /\ \A i, j \in 1..Len(recs) : i < j => ~ScoreAbove(recs[j], recs[i])
            /\ \A c \in cands \ Range(recs) :
                  \A i \in 1..Len(recs) : ~ScoreAbove(c, recs[i])

\* an answer of TOP_N items that leaves out candidates, some of them with a lower
\* score than every item of the answer
C29_Witness ==
    /\ ScoredAnswer
    /\ Len(response.body.recomendacoes) = TOP_N
    /\ Cardinality(Range(Candidates(cur.data))) > TOP_N
    /\ \E c \in Range(Candidates(cur.data)) :
          ScoreAbove(response.body.recomendacoes[TOP_N], c)

\* C30: an answer of the scoring with fewer than TOP_N items leaves out no film
\* that some user has rated and the target user has not.
C30_FillUntilExhausted ==
    (ScoredAnswer /\ Len(response.body.recomendacoes) < TOP_N) =>
        \A t \in {r.title : r \in dbRatings} \ RatedTitles :
            \E i \in 1..Len(response.body.recomendacoes) :
                response.body.recomendacoes[i].filme = t

\* the positions of a request inside adicionar_usuario and scrap.scrap
OnboardPcs == {"a_check", "a_verify", "s_fetch", "s_user", "s_film", "s_commit"}

\* C31: adicionar_usuario (the verification at the external platform, the scrape)
\* is invoked only after a store lookup of the same request reported the user as
\* not found; a request whose dataset came from the store or from the cache at its
\* first entry has made no external call.
C31_OnboardOnlyAfterNotFound ==
    /\ pc = "a_check" => ~UserExists(dbUsers, req.usuario)
    /\ (pc \in OnboardPcs \/ g.verify # "" \/ g.scrapes > 0) =>
            (g.onboard >= 1 /\ g.loads >= 1)
    /\ (pc = "g_score" /\ g.entries = 1) => (g.verify = "" /\ g.scrapes = 0)

\* the scrape of a request runs after its lookup reported user_not_found
C31_Witness ==
    /\ pc = "s_fetch"
    /\ g.scrapes = 1
    /\ g.onboard = 1
    /\ g.loads = 1
    /\ ~UserExists(dbUsers, req.usuario)

\* C32: the insert of scrap is atomic per user: what is committed of a user is the
\* user row together with the ratings, or nothing; a failure at one film never
\* undoes the user row while ratings inserted after it are committed.
C32_AtomicPerUser ==
    \A r \in dbRatings : \E u \in dbUsers : u.id = r.user_id

\* C33: whenever adicionar_usuario has returned True the user is in the store, so
\* the lookup of the retry does not report user_not_found again, also when a film
\* or a rating failed in the scrape or the alarm fired inside the insert loop.
C33_TrueMeansStored ==
    (g.onboard >= 1 /\ pc \in {"call", "g_start", "g_load"}) =>
        UserExists(dbUsers, req.usuario)

\* C34: after scrape_user_data has stored a scraped (title, rating) for a username
\* in a DataManager, get_user_ratings of the username contains (title, rating) and
\* get_all_ratings contains (username, title, rating).
C34_ScrapedIsReadable ==
    \A x \in dmh.scraped :
        /\ <<x[2], x[3]>> \in get_user_ratings(users_file, movies_file, ratings_file, x[1])
        /\ x \in get_all_ratings(users_file, movies_file, ratings_file)

\* C35: when the add_user calls of two processes for different usernames
\* interleave, every user a call has returned an id for is in users.json once all
\* calls are over (both are stored, none stored earlier is lost), and no two
\* usernames were given the same id.
C35_InterleavedAddUser ==
    (\A p \in Procs : au[p].pc = "idle") =>
        /\ \A a \in dmh.added : get_user_id(users_file, a.username) # NoId
        /\ \A a, b \in dmh.added : a.username # b.username => a.id # b.id

\* a step of cache_user: nothing else changes the cache or the answer while no
\* request is in progress, no time passes and no request arrives
CacheUserStep ==
    /\ pc = "idle" /\ pc' = "idle"
    /\ now' = now /\ nreq' = nreq
    /\ ca' # ca \/ user_cache' # user_cache

\* C36: GET /api/cache/{user} loads from the store on every call, also when a
\* fresh entry of the user exists, and replaces the entry with the loaded dataset
\* and the current time iff the load ends with success; with any other status the
\* cache is unchanged and the answer is an error.
C36_CacheUserLoadsAlways ==
    [][CacheUserStep =>
         /\ ca'.http \in {200, 400}
         /\ ca'.http = 200 =>
               \E u \in Usernames :
                   /\ LoadStatus(dbUsers, dbMovies, dbRatings, u, FALSE) = "success"
                   /\ user_cache'[u].timestamp = now
                   /\ user_cache'[u].data \in StoreDatasets(dbUsers, dbMovies, dbRatings, u)
                   /\ \A v \in Usernames \ {u} : user_cache'[v] = user_cache[v]
         /\ ca'.http = 400 => user_cache' = user_cache]_vars

\* a request was served from an entry put earlier and, with no time passed since
\* it arrived, cache_user has put the entry of its user anew
C36_Witness ==
    /\ pc = "idle"
    /\ ca.http = 200
    /\ g.hit
    /\ g.tsAge > 0
    /\ now = req.arrival
    /\ user_cache[req.usuario].timestamp = now

\* the admitted instants of a client that are younger than RATE_LIMIT_WINDOW at t
YoungAdmitted(hist, t) ==
    Cardinality({ i \in 1..Len(hist) : t - hist[i] < RATE_LIMIT_WINDOW })

\* C37: a rejected request adds no instant to the window of its client, which
\* holds the young admitted instants and nothing else; so a client that kept
\* sending while it was limited is admitted as soon as fewer than
\* RATE_LIMIT_MAX_REQUESTS of its admitted instants are younger than
\* RATE_LIMIT_WINDOW.
C37_RejectionsNotCounted ==
    [][nreq' = nreq + 1 =>
         LET c == req'.client
         IN  /\ response'.http = 429 =>
                   /\ admitted' = admitted
                   /\ Len(request_counts'[c]) <= Len(request_counts[c])
             /\ Len(request_counts'[c]) = YoungAdmitted(admitted'[c], now)
             /\ YoungAdmitted(admitted[c], now) < RATE_LIMIT_MAX_REQUESTS =>
                   response'.http # 429]_vars

\* a client was rejected, sent its next request exactly RATE_LIMIT_WINDOW after
\* its first admitted one, and that request is admitted
C37_Witness ==
    /\ pc = "call"
    /\ req.after429
    /\ Len(admitted[req.client]) = RATE_LIMIT_MAX_REQUESTS + 1
    /\ req.arrival = admitted[req.client][1] + RATE_LIMIT_WINDOW
    /\ Len(request_counts[req.client]) < RATE_LIMIT_MAX_REQUESTS

====
